---- MODULE Spec2Model ----
(***************************************************************************)
(* Word-Guru: the game session (game.py), the daily selector (daily.py)    *)
(* and the score store (persistence.py) as a state machine.                *)
(*                                                                         *)
(* A string is a sequence of one-character strings, so that upper(),       *)
(* strip(), isalpha() and the two scoring passes are computed character by *)
(* character as the Python code computes them.                             *)
(***************************************************************************)
EXTENDS Integers, Sequences, FiniteSets, TLC

(***************************************************************************)
(* Bounds of the model.                                                    *)
(***************************************************************************)
\* select_daily_word is not called any more once it was called this many times
MaxCalls == 2
\* save_score is not called any more once the score file holds this many entries
MaxStored == 3
\* get_top_scores is called with lists of at most this many records
MaxRanked == 3
\* largest attempt budget a session is constructed with
MaxAttempts == 2
\* check_guess is not called any more once attempts holds this many guesses
MaxGuesses == 2
\* start_game is not called any more once the score file holds this many records
MaxRecords == 1

(***************************************************************************)
(* Characters and strings.                                                 *)
(***************************************************************************)
UpperLetters == {"A", "B"}

LowerLetters == {"a", "b"}

\* Optional[...] : None is the empty tuple, a value v is <<v>>
None == <<>>

Some(v) == <<v>>

\* letters outside ASCII, each written as its code point: U+00C9 is the capital
\* E with acute accent, U+00E9 its lower case, and U+5B57 a CJK character,
\* which has no case
OtherLetters == {"U+00C9", "U+00E9", "U+5B57"}

\* str.upper(), one character
UpperChar(c) ==
  IF c = "a" THEN "A" ELSE IF c = "b" THEN "B"
  ELSE IF c = "U+00E9" THEN "U+00C9" ELSE c

\* str.upper()
Upper(s) == [i \in 1..Len(s) |-> UpperChar(s[i])]

RECURSIVE LStrip(_)
\* str.lstrip() for the blank character
LStrip(s) == IF s # <<>> /\ Head(s) = " " THEN LStrip(Tail(s)) ELSE s

RECURSIVE RStrip(_)
\* str.rstrip() for the blank character
RStrip(s) ==
  IF s # <<>> /\ s[Len(s)] = " " THEN RStrip(SubSeq(s, 1, Len(s) - 1)) ELSE s

\* str.strip()
Strip(s) == RStrip(LStrip(s))

\* guess.upper().strip()
Normalize(s) == Strip(Upper(s))

\* str.isalpha(): non-empty and every character is a letter
IsAlpha(s) ==
  s # <<>> /\ \A i \in 1..Len(s) : s[i] \in UpperLetters \cup LowerLetters \cup OtherLetters

\* the three-letter words over the letters
Words == {<<a, b, c>> : a \in UpperLetters, b \in UpperLetters, c \in UpperLetters}

\* inputs to check_guess that are not plain words: lower case and padded, too
\* long, empty, with a digit, with an inner blank, too short once stripped
OtherGuesses ==
  { <<" ", "b", "A", "b", " ">>, <<"A", "B", "A", "B">>, <<>>,
    <<"A", "1", "B">>, <<"A", " ", "B">>, <<" ", "A", "B">> }

\* the words guessed in a session: the targets of the word lists and one more
GuessWords ==
  { <<"A", "B", "A">>, <<"A", "B", "B">>, <<"B", "A", "B">>, <<"A", "A", "B">> }

RawGuesses == GuessWords \cup OtherGuesses

\* word lists a session is constructed with
WordLists ==
  { <<>>,
    << <<"A", "B", "A">> >>,
    << <<"a", "b", "b">>, <<" ", "B", "A", "B">> >> }

Players == {"alice"}

\* UTC calendar days: 1 is 2024-06-15, 2 is 2024-06-16
Days == {1, 2}

(***************************************************************************)
(* The session, the clock and the score file.                              *)
(***************************************************************************)
VARIABLES
  word_list,     \* self.word_list
  max_attempts,  \* self.max_attempts
  scores_path,   \* self.scores_path: None or Some(path)
  player,        \* self.player
  daily_mode,    \* self.daily_mode
  current_word,  \* self.current_word: None or Some(word)
  attempts,      \* self.attempts
  game_over,     \* self.game_over
  won,           \* self.won
  today,         \* the current UTC day
  fs,            \* content of the score file: [kind, recs]
  writable,      \* whether the score file (and its directory) can be written
  emitted,       \* number of save_score calls made since the last start_game
  last,          \* the last call: operation, argument, exception, results, output
  hist,          \* the select_daily_word calls made, in order: [words, date, exc, word]
  procs          \* the processes inside save_score: [pc, score, scores, exc, after]

vars ==
  << word_list, max_attempts, scores_path, player, daily_mode, current_word,
     attempts, game_over, won, today, fs, writable, emitted, last, hist, procs >>

config == << word_list, max_attempts, scores_path, player, daily_mode >>
(***************************************************************************)
(* daily.py: the daily selector.                                           *)
(***************************************************************************)
\* hashlib.sha256(str(date).encode()).hexdigest()[:8], digit by digit:
\* 2024-06-15 gives 0e7e152c and 2024-06-16 gives b73ac605
HashHex8(date) ==
  IF date = 1 THEN <<0, 14, 7, 14, 1, 5, 2, 12>> ELSE <<11, 7, 3, 10, 12, 6, 0, 5>>

RECURSIVE SeedMod_SevenDigits(_, _, _)
\* SeedMod that reads hash_hex[:7]
SeedMod_SevenDigits(digits, n, acc) ==
  IF Len(digits) <= 1 THEN acc
  ELSE SeedMod_SevenDigits(Tail(digits), n, (acc * 16 + Head(digits)) % n)

RECURSIVE SeedMod(_, _, _)
\* int(hash_hex[:8], 16) % n, reduced modulo n digit by digit (the seed itself
\* can be as large as 2^32 - 1); acc is the value of the digits read so far
SeedMod(digits, n, acc) ==
  IF digits = <<>> THEN acc
  ELSE SeedMod(Tail(digits), n, (acc * 16 + Head(digits)) % n)

\* select_daily_word that seeds from the clock and not from its date argument
select_daily_word_UsesClock(words, date) ==
  LET word_index == SeedMod(HashHex8(today), Len(words), 0)
  IN  Normalize(words[word_index + 1])

\* select_daily_word(words, date), for a non-empty list
select_daily_word(words, date) ==
  LET word_index == SeedMod(HashHex8(date), Len(words), 0)
  IN  Normalize(words[word_index + 1])

(***************************************************************************)
(* game.py: scoring of one guess, as the two passes of check_guess.        *)
(***************************************************************************)
\* target_letter_counts.get(letter, 0)
target_letter_counts(target, letter) ==
  Cardinality({i \in 1..Len(target) : target[i] = letter})

\* FirstPass with the test "letter in self.current_word" in place of the
\* comparison at the same position
FirstPass_AnyPosition(guess, target) ==
  [i \in 1..Len(guess) |->
     IF \E j \in 1..Len(target) : guess[i] = target[j] THEN "correct" ELSE "pending"]

\* letter_statuses after the first pass
FirstPass(guess, target) ==
  [i \in 1..Len(guess) |-> IF guess[i] = target[i] THEN "correct" ELSE "pending"]

\* used_target_letters.get(letter, 0) after the first pass
FirstPassUsed(guess, target, letter) ==
  Cardinality({i \in 1..Len(guess) : guess[i] = target[i] /\ guess[i] = letter})

RECURSIVE SecondPass_NoConsume(_, _, _, _, _)
\* SecondPass without the increment of used_target_letters
SecondPass_NoConsume(i, guess, target, statuses, used) ==
  IF i > Len(guess) THEN statuses
  ELSE IF statuses[i] = "pending"
       THEN LET letter == guess[i]
                available_count == target_letter_counts(target, letter) - used[letter]
            IN  IF available_count > 0
                THEN SecondPass_NoConsume(i + 1, guess, target,
                                          [statuses EXCEPT ![i] = "present"], used)
                ELSE SecondPass_NoConsume(i + 1, guess, target,
                                          [statuses EXCEPT ![i] = "absent"], used)
       ELSE SecondPass_NoConsume(i + 1, guess, target, statuses, used)

RECURSIVE SecondPass_RightToLeft(_, _, _, _, _)
\* SecondPass that visits the positions from the last one to the first
SecondPass_RightToLeft(i, guess, target, statuses, used) ==
  IF i > Len(guess) THEN statuses
  ELSE LET p == Len(guess) + 1 - i
       IN  IF statuses[p] = "pending"
           THEN LET letter == guess[p]
                    available_count == target_letter_counts(target, letter) - used[letter]
                IN  IF available_count > 0
                    THEN SecondPass_RightToLeft(i + 1, guess, target,
                                                [statuses EXCEPT ![p] = "present"],
                                                [used EXCEPT ![letter] = @ + 1])
                    ELSE SecondPass_RightToLeft(i + 1, guess, target,
                                                [statuses EXCEPT ![p] = "absent"], used)
           ELSE SecondPass_RightToLeft(i + 1, guess, target, statuses, used)

RECURSIVE SecondPass(_, _, _, _, _)
\* the second loop from position i on; used is used_target_letters
SecondPass(i, guess, target, statuses, used) ==
  IF i > Len(guess) THEN statuses
  ELSE IF statuses[i] = "pending"
       THEN LET letter == guess[i]
                available_count == target_letter_counts(target, letter) - used[letter]
            IN  IF available_count > 0
                THEN SecondPass(i + 1, guess, target,
                                [statuses EXCEPT ![i] = "present"],
                                [used EXCEPT ![letter] = @ + 1])
                ELSE SecondPass(i + 1, guess, target,
                                [statuses EXCEPT ![i] = "absent"], used)
       ELSE SecondPass(i + 1, guess, target, statuses, used)

\* the letter_statuses list that check_guess returns
letter_statuses(guess, target) ==
  SecondPass(1, guess, target, FirstPass(guess, target),
             [letter \in {guess[i] : i \in 1..Len(guess)} |->
                FirstPassUsed(guess, target, letter)])

\* the mark that feedback_summary puts after the letter
Mark(status) ==
  IF status = "correct" THEN "ok" ELSE IF status = "present" THEN "misplaced" ELSE "no"

\* the feedback_summary list that check_guess returns
feedback_summary(guess, statuses) ==
  [i \in 1..Len(guess) |-> <<guess[i], Mark(statuses[i])>>]

(***************************************************************************)
(* persistence.py: the score file.                                         *)
(***************************************************************************)
\* Python values: a value carries its type t and one slot per type, the slots
\* of the other types holding a fixed filler; the items of a dict are its
\* <<key, value>> pairs in insertion order
PyStr(s) == [t |-> "str", s |-> s, n |-> 0, b |-> FALSE, items |-> <<>>]

PyInt(n) == [t |-> "int", s |-> <<>>, n |-> n, b |-> FALSE, items |-> <<>>]

PyBool(b) == [t |-> "bool", s |-> <<>>, n |-> 0, b |-> b, items |-> <<>>]

PyNone == [t |-> "NoneType", s |-> <<>>, n |-> 0, b |-> FALSE, items |-> <<>>]

PyDict(items) == [t |-> "dict", s |-> <<>>, n |-> 0, b |-> FALSE, items |-> items]

\* a list: items holds its elements
PyList(items) == [t |-> "list", s |-> <<>>, n |-> 0, b |-> FALSE, items |-> items]

\* set(score.keys())
Keys(score) == {score.items[i][1] : i \in 1..Len(score.items)}

\* score.get(key, default) and, for a key that is present, score[key]
Get(score, key, default) ==
  IF key \in Keys(score)
  THEN score.items[CHOOSE i \in 1..Len(score.items) : score.items[i][1] = key][2]
  ELSE default

\* isinstance(v, int): bool is a subclass of int
IsInt(v) == v.t \in {"int", "bool"}

\* the value of v as an integer: True is 1 and False is 0
IntValue(v) == IF v.t = "bool" THEN (IF v.b THEN 1 ELSE 0) ELSE v.n

\* str(date): the day as YYYY-MM-DD
DayStr(date) == IF date = 1 THEN "2024-06-15" ELSE "2024-06-16"

\* datetime.now(timezone.utc).isoformat().replace('+00:00', 'Z') on the day
\* "date": the ten characters of the day, then the time of day
IsoNow(date) == <<DayStr(date), "T12:00:00.000000Z">>

\* json.dump of one value: a string, a number, true, false, null, an array or
\* an object with its members in the order of the dict
RECURSIVE JsonDump(_)
JsonDump(v) ==
  IF v.t = "str" THEN [j |-> "string", s |-> v.s, n |-> 0, members |-> <<>>]
  ELSE IF v.t = "int" THEN [j |-> "number", s |-> <<>>, n |-> v.n, members |-> <<>>]
  ELSE IF v.t = "bool"
  THEN [j |-> IF v.b THEN "true" ELSE "false", s |-> <<>>, n |-> 0, members |-> <<>>]
  ELSE IF v.t = "NoneType" THEN [j |-> "null", s |-> <<>>, n |-> 0, members |-> <<>>]
  ELSE IF v.t = "list"
  THEN [j |-> "array", s |-> <<>>, n |-> 0,
        members |-> [i \in 1..Len(v.items) |-> JsonDump(v.items[i])]]
  ELSE [j |-> "object", s |-> <<>>, n |-> 0,
        members |-> [i \in 1..Len(v.items) |->
                       <<v.items[i][1], JsonDump(v.items[i][2])>>]]

\* json.loads of one value
RECURSIVE JsonLoad(_)
JsonLoad(x) ==
  IF x.j = "string" THEN PyStr(x.s)
  ELSE IF x.j = "number" THEN PyInt(x.n)
  ELSE IF x.j = "true" THEN PyBool(TRUE)
  ELSE IF x.j = "false" THEN PyBool(FALSE)
  ELSE IF x.j = "null" THEN PyNone
  ELSE IF x.j = "array" THEN PyList([i \in 1..Len(x.members) |-> JsonLoad(x.members[i])])
  ELSE PyDict([i \in 1..Len(x.members) |->
                 <<x.members[i][1], JsonLoad(x.members[i][2])>>])

\* the score file: kind "missing" (no file), "empty" (no text or blanks only),
\* "malformed" (not JSON), "notlist" (a JSON value that is not a list) or
\* "list" (a JSON list, recs holding its elements as JSON values)
File(kind, recs) == [kind |-> kind, recs |-> recs]

\* contents the score file can have when a session is constructed
InitialFiles ==
  { File("missing", <<>>), File("empty", <<>>), File("list", <<>>),
    File("malformed", <<>>), File("notlist", <<>>) }

\* load_scores without the isinstance(scores, list) test
load_scores_NoListTest(f) ==
  IF f.kind \in {"missing", "empty", "notlist"} THEN [exc |-> "none", scores |-> <<>>]
  ELSE IF f.kind = "list"
  THEN [exc |-> "none", scores |-> [i \in 1..Len(f.recs) |-> JsonLoad(f.recs[i])]]
  ELSE [exc |-> "RuntimeError", scores |-> <<>>]

\* load_scores(path) on file content f: the list, or RuntimeError
load_scores(f) ==
  IF f.kind \in {"missing", "empty"} THEN [exc |-> "none", scores |-> <<>>]
  ELSE IF f.kind = "list"
  THEN [exc |-> "none", scores |-> [i \in 1..Len(f.recs) |-> JsonLoad(f.recs[i])]]
  ELSE [exc |-> "RuntimeError", scores |-> <<>>]

\* ValidScore without the test score["attempts"] < 0
ValidScore_NoSignTest(score) ==
  /\ score.t = "dict"
  /\ {"player", "word", "attempts", "won", "date"} \subseteq Keys(score)
  /\ Get(score, "player", PyNone).t = "str"
  /\ Get(score, "word", PyNone).t = "str"
  /\ IsInt(Get(score, "attempts", PyNone))
  /\ Get(score, "won", PyNone).t = "bool"
  /\ Get(score, "date", PyNone).t = "str"

\* the structure and type checks of save_score
ValidScore(score) ==
  /\ score.t = "dict"
  /\ {"player", "word", "attempts", "won", "date"} \subseteq Keys(score)
  /\ Get(score, "player", PyNone).t = "str"
  /\ Get(score, "word", PyNone).t = "str"
  /\ IsInt(Get(score, "attempts", PyNone))
  /\ IntValue(Get(score, "attempts", PyNone)) >= 0
  /\ Get(score, "won", PyNone).t = "bool"
  /\ Get(score, "date", PyNone).t = "str"

\* save_score that opens the file for writing before it loads the scores: a
\* failing load leaves the file without content
save_score_OpensFirst(f, canWrite, score) ==
  IF ~ValidScore(score) THEN [exc |-> "ValueError", fs |-> f]
  ELSE IF ~canWrite THEN [exc |-> "RuntimeError", fs |-> f]
  ELSE LET loaded == load_scores(f)
       IN  IF loaded.exc # "none" THEN [exc |-> "RuntimeError", fs |-> File("empty", <<>>)]
           ELSE LET scores == Append(loaded.scores, score)
                IN  [exc |-> "none",
                     fs |-> File("list", [i \in 1..Len(scores) |-> JsonDump(scores[i])])]

\* save_score that writes [score] and not the loaded list with score appended
save_score_Overwrite(f, canWrite, score) ==
  IF ~ValidScore(score) THEN [exc |-> "ValueError", fs |-> f]
  ELSE LET loaded == load_scores(f)
       IN  IF loaded.exc # "none" THEN [exc |-> "RuntimeError", fs |-> f]
           ELSE IF ~canWrite THEN [exc |-> "RuntimeError", fs |-> f]
           ELSE [exc |-> "none", fs |-> File("list", <<JsonDump(score)>>)]

\* save_score(path, score) on file content f: the exception and the new content
save_score(f, canWrite, score) ==
  IF ~ValidScore(score) THEN [exc |-> "ValueError", fs |-> f]
  ELSE LET loaded == load_scores(f)
       IN  IF loaded.exc # "none" THEN [exc |-> "RuntimeError", fs |-> f]
           ELSE IF ~canWrite THEN [exc |-> "RuntimeError", fs |-> f]
           ELSE LET scores == Append(loaded.scores, score)
                IN  [exc |-> "none",
                     fs |-> File("list", [i \in 1..Len(scores) |-> JsonDump(scores[i])])]

\* create_score(player, word, attempts, won) at the day "date"
create_score(p, word, n, w, date) ==
  PyDict(<< <<"player", PyStr(<<p>>)>>, <<"word", PyStr(word)>>,
            <<"attempts", PyInt(n)>>, <<"won", PyBool(w)>>,
            <<"date", PyStr(IsoNow(date))>> >>)

(***************************************************************************)
(* daily.py: whether the player has a record of today.                     *)
(***************************************************************************)
\* str.startswith
StartsWith(s, prefix) ==
  Len(s) >= Len(prefix) /\ SubSeq(s, 1, Len(prefix)) = prefix

RECURSIVE ScanReversed_AnyPlayer(_, _, _, _)
\* ScanReversed without the test score.get("player") == player
ScanReversed_AnyPlayer(scores, i, p, today_str) ==
  IF i = 0 THEN "false"
  ELSE LET score == scores[i]
       IN  IF score.t # "dict" THEN "AttributeError"
           ELSE LET score_date == Get(score, "date", PyStr(<<>>))
                IN  IF score_date.t # "str" THEN "AttributeError"
                    ELSE IF StartsWith(score_date.s, today_str) THEN "true"
                    ELSE ScanReversed_AnyPlayer(scores, i - 1, p, today_str)

RECURSIVE ScanReversed(_, _, _, _)
\* the loop "for score in reversed(scores)" from the entry at i down to the
\* first: "true" and "false" are the two return values, "AttributeError" is
\* raised by score.get on an entry that is no dict and by
\* score_date.startswith on a date that is no string
ScanReversed(scores, i, p, today_str) ==
  IF i = 0 THEN "false"
  ELSE LET score == scores[i]
       IN  IF score.t # "dict" THEN "AttributeError"
           ELSE IF Get(score, "player", PyNone) = PyStr(<<p>>)
           THEN LET score_date == Get(score, "date", PyStr(<<>>))
                IN  IF score_date.t # "str" THEN "AttributeError"
                    ELSE IF StartsWith(score_date.s, today_str) THEN "true"
                    ELSE ScanReversed(scores, i - 1, p, today_str)
           ELSE ScanReversed(scores, i - 1, p, today_str)

\* is_daily_completed without the try/except: the exceptions of load_scores
\* and of the loop leave the function
is_daily_completed_NoCatch(p, path, f, date) ==
  IF path = None THEN [exc |-> "none", result |-> FALSE]
  ELSE LET loaded == load_scores(f)
           found == IF loaded.exc # "none" THEN loaded.exc
                    ELSE ScanReversed(loaded.scores, Len(loaded.scores), p, <<DayStr(date)>>)
       IN  [exc |-> IF found \in {"true", "false"} THEN "none" ELSE found,
            result |-> found = "true"]

\* is_daily_completed(player, scores_path) on file content f at the day
\* "date": the exception that leaves the function and the value returned
is_daily_completed(p, path, f, date) ==
  IF path = None THEN [exc |-> "none", result |-> FALSE]
  ELSE LET loaded == load_scores(f)
           found == IF loaded.exc # "none" THEN loaded.exc
                    ELSE ScanReversed(loaded.scores, Len(loaded.scores), p, <<DayStr(date)>>)
       IN  [exc |-> "none", result |-> found = "true"]

(***************************************************************************)
(* game.py: the session.                                                   *)
(***************************************************************************)
\* what a call that returns nothing and prints nothing leaves in "last"
Call(op, arg, exc, msg) ==
  [op |-> op, arg |-> arg, exc |-> exc, msg |-> msg,
   statuses |-> <<>>, feedback |-> <<>>, printed |-> "none", result |-> <<>>]

\* WordGuruGame.__init__
Init ==
  /\ word_list \in {[i \in 1..Len(wl) |-> Normalize(wl[i])] : wl \in WordLists}
  /\ max_attempts \in 0..MaxAttempts
  /\ scores_path \in {None, Some("scores.json")}
  /\ player \in Players
  /\ daily_mode \in BOOLEAN
  /\ current_word = None
  /\ attempts = <<>>
  /\ game_over = FALSE
  /\ won = FALSE
  /\ today \in Days
  /\ fs \in InitialFiles
  /\ writable \in BOOLEAN
  \* without a path the file is never touched: one file state stands for all
  /\ scores_path = None => fs.kind = "missing" /\ writable
  \* an unwritable file fails every save whatever it holds
  /\ ~writable => fs.kind \in {"missing", "list"}
  /\ emitted = 0
  /\ last = Call("__init__", <<>>, "none", "")
  /\ hist = <<>>
  /\ procs = <<>>

\* a call that raises before it changes anything
Raise(op, arg, exc, msg) ==
  /\ last' = Call(op, arg, exc, msg)
  /\ UNCHANGED << config, current_word, attempts, game_over, won, today, fs,
                  writable, emitted, hist, procs >>

\* start_game without the test "if not self.word_list": random.choice raises
\* IndexError on an empty list and select_daily_word raises its own ValueError
start_game_NoEmptyTest ==
  /\ Len(fs.recs) < MaxRecords
  /\ IF word_list = <<>>
     THEN IF daily_mode
          THEN Raise("start_game", <<>>, "ValueError", "Words list cannot be empty")
          ELSE Raise("start_game", <<>>, "IndexError", "Cannot choose from an empty sequence")
     ELSE
       /\ IF daily_mode
          THEN current_word' = Some(select_daily_word(word_list, today))
          ELSE \E i \in 1..Len(word_list) : current_word' = Some(word_list[i])
       /\ attempts' = <<>>
       /\ game_over' = FALSE
       /\ won' = FALSE
       /\ emitted' = 0
       /\ last' = Call("start_game", <<>>, "none", "")
       /\ UNCHANGED << config, today, fs, writable, hist, procs >>

\* start_game without "self.attempts = []"
start_game_KeepsAttempts ==
  /\ Len(fs.recs) < MaxRecords
  /\ IF word_list = <<>>
     THEN Raise("start_game", <<>>, "ValueError", "No words available for the game")
     ELSE
       /\ IF daily_mode
          THEN current_word' = Some(select_daily_word(word_list, today))
          ELSE \E i \in 1..Len(word_list) : current_word' = Some(word_list[i])
       /\ game_over' = FALSE
       /\ won' = FALSE
       /\ emitted' = 0
       /\ last' = Call("start_game", <<>>, "none", "")
       /\ UNCHANGED << config, attempts, today, fs, writable, hist, procs >>

\* start_game that takes random.choice(self.word_list) in daily mode too
start_game_AnyWord ==
  /\ Len(fs.recs) < MaxRecords
  /\ IF word_list = <<>>
     THEN Raise("start_game", <<>>, "ValueError", "No words available for the game")
     ELSE
       /\ \E i \in 1..Len(word_list) : current_word' = Some(word_list[i])
       /\ attempts' = <<>>
       /\ game_over' = FALSE
       /\ won' = FALSE
       /\ emitted' = 0
       /\ last' = Call("start_game", <<>>, "none", "")
       /\ UNCHANGED << config, today, fs, writable, hist, procs >>

\* WordGuruGame.start_game
start_game ==
  /\ Len(fs.recs) < MaxRecords
  /\ IF word_list = <<>>
     THEN Raise("start_game", <<>>, "ValueError", "No words available for the game")
     ELSE
       /\ IF daily_mode
          THEN current_word' = Some(select_daily_word(word_list, today))
          ELSE \E i \in 1..Len(word_list) : current_word' = Some(word_list[i])
       /\ attempts' = <<>>
       /\ game_over' = FALSE
       /\ won' = FALSE
       /\ emitted' = 0
       /\ last' = Call("start_game", <<>>, "none", "")
       /\ UNCHANGED << config, today, fs, writable, hist, procs >>

\* _save_game_score without the try/except around save_score
save_game_score_NoCatch(att, w) ==
  IF scores_path = None \/ current_word = None
  THEN [fs |-> fs, printed |-> "none", exc |-> "none", calls |-> 0]
  ELSE LET score == create_score(player, current_word[1], Len(att), w, today)
           saved == save_score(fs, writable, score)
       IN  IF saved.exc = "none"
           THEN [fs |-> saved.fs, printed |-> "saved", exc |-> "none", calls |-> 1]
           ELSE [fs |-> saved.fs, printed |-> "none", exc |-> saved.exc, calls |-> 1]

\* WordGuruGame._save_game_score, called with attempts = att and won = w:
\* the new file content, what is printed, the exception that leaves the
\* method and the number of save_score calls made
save_game_score(att, w) ==
  IF scores_path = None \/ current_word = None
  THEN [fs |-> fs, printed |-> "none", exc |-> "none", calls |-> 0]
  ELSE LET score == create_score(player, current_word[1], Len(att), w, today)
           saved == save_score(fs, writable, score)
       IN  IF saved.exc = "none"
           THEN [fs |-> saved.fs, printed |-> "saved", exc |-> "none", calls |-> 1]
           ELSE [fs |-> saved.fs, printed |-> "warning", exc |-> "none", calls |-> 1]

\* Outcome without the budget test: only the target ends the session
Outcome_NoBudgetTest(guess, target, att, max, w, over) ==
  [won |-> IF guess = target THEN TRUE ELSE w,
   game_over |-> IF guess = target THEN TRUE ELSE over]

\* Outcome with ">" in place of ">=" in the budget test
Outcome_OffByOne(guess, target, att, max, w, over) ==
  [won |-> IF guess = target THEN TRUE ELSE w,
   game_over |-> IF guess = target \/ Len(att) > max THEN TRUE ELSE over]

\* Outcome with the budget test first and the win test as its "elif"
Outcome_BudgetFirst(guess, target, att, max, w, over) ==
  IF Len(att) >= max THEN [won |-> w, game_over |-> TRUE]
  ELSE IF guess = target THEN [won |-> TRUE, game_over |-> TRUE]
  ELSE [won |-> w, game_over |-> over]

\* Outcome with "self.won = (guess == self.current_word)" as the win test
Outcome_Recomputed(guess, target, att, max, w, over) ==
  [won |-> guess = target,
   game_over |-> IF guess = target \/ Len(att) >= max THEN TRUE ELSE over]

\* Outcome that sets won on a match and leaves game_over to the budget test
Outcome_WonNotOver(guess, target, att, max, w, over) ==
  [won |-> IF guess = target THEN TRUE ELSE w,
   game_over |-> IF Len(att) >= max THEN TRUE ELSE over]

\* "Check win condition" and "Check max attempts reached": the new won and
\* game_over, from the guess, the target, the attempts after the append, the
\* budget and the old won and game_over
Outcome(guess, target, att, max, w, over) ==
  [won |-> IF guess = target THEN TRUE ELSE w,
   game_over |-> IF guess = target \/ Len(att) >= max THEN TRUE ELSE over]

\* Accept that sets self.current_word to None when the session ends
Accept_ClearsTarget(raw, guess) ==
  LET target == current_word[1]
      att == Append(attempts, guess)
      statuses == letter_statuses(guess, target)
      out == Outcome(guess, target, att, max_attempts, won, game_over)
      saved == IF out.game_over THEN save_game_score(att, out.won)
               ELSE [fs |-> fs, printed |-> "none", exc |-> "none", calls |-> 0]
  IN  /\ attempts' = att
      /\ won' = out.won
      /\ game_over' = out.game_over
      /\ current_word' = IF out.game_over THEN None ELSE current_word
      /\ fs' = saved.fs
      /\ emitted' = emitted + saved.calls
      /\ last' = [op |-> "check_guess", arg |-> raw, exc |-> "none", msg |-> "",
                  statuses |-> statuses,
                  feedback |-> feedback_summary(guess, statuses),
                  printed |-> saved.printed, result |-> <<>>]
      /\ UNCHANGED << config, today, writable, hist, procs >>

\* check_guess from "self.attempts.append(guess)" on: guess is the normalized
\* guess, which has passed both validations
Accept(raw, guess) ==
  LET target == current_word[1]
      att == Append(attempts, guess)
      statuses == letter_statuses(guess, target)
      out == Outcome(guess, target, att, max_attempts, won, game_over)
      saved == IF out.game_over THEN save_game_score(att, out.won)
               ELSE [fs |-> fs, printed |-> "none", exc |-> "none", calls |-> 0]
  IN  /\ attempts' = att
      /\ won' = out.won
      /\ game_over' = out.game_over
      /\ fs' = saved.fs
      /\ emitted' = emitted + saved.calls
      /\ last' = IF saved.exc = "none"
                 THEN [op |-> "check_guess", arg |-> raw, exc |-> "none", msg |-> "",
                       statuses |-> statuses,
                       feedback |-> feedback_summary(guess, statuses),
                       printed |-> saved.printed, result |-> <<>>]
                 ELSE [Call("check_guess", raw, saved.exc, "") EXCEPT
                         !.printed = saved.printed]
      /\ UNCHANGED << config, current_word, today, writable, hist, procs >>

\* NotStarted raising the exception type of the input validation
NotStarted_ValueError(raw) == Raise("check_guess", raw, "ValueError", "Game not started")

\* check_guess on a session without a target
NotStarted(raw) == Raise("check_guess", raw, "RuntimeError", "Game not started")

\* Invalid with "self.attempts.append(guess)" moved before the validation
Invalid_AppendsFirst(raw, msg) ==
  /\ attempts' = Append(attempts, Normalize(raw))
  /\ last' = Call("check_guess", raw, "ValueError", msg)
  /\ UNCHANGED << config, current_word, game_over, won, today, fs, writable, emitted,
                  hist, procs >>

\* check_guess on a guess that fails one of the two validations
Invalid(raw, msg) == Raise("check_guess", raw, "ValueError", msg)

\* check_guess with the two validations made on the guess as it was given and
\* the normalization after them
check_guess_ValidatesRaw(raw) ==
  /\ Len(attempts) < MaxGuesses
  /\ IF current_word = None
     THEN NotStarted(raw)
     ELSE IF Len(raw) # Len(current_word[1])
          THEN Invalid(raw, "Guess must be n letters long")
          ELSE IF ~IsAlpha(raw)
          THEN Invalid(raw, "Guess must contain only letters")
          ELSE Accept(raw, Normalize(raw))

\* WordGuruGame.check_guess
check_guess(raw) ==
  /\ Len(attempts) < MaxGuesses
  /\ IF current_word = None
     THEN NotStarted(raw)
     ELSE LET guess == Normalize(raw)
          IN  IF Len(guess) # Len(current_word[1])
              THEN Invalid(raw, "Guess must be n letters long")
              ELSE IF ~IsAlpha(guess)
              THEN Invalid(raw, "Guess must contain only letters")
              ELSE Accept(raw, guess)

\* WordGuruGame.is_finished
is_finished ==
  /\ last' = [Call("is_finished", <<>>, "none", "") EXCEPT
               !.result = <<PyBool(game_over)>>]
  /\ UNCHANGED << config, current_word, attempts, game_over, won, today, fs,
                  writable, emitted, hist, procs >>

\* the strings time_until_next_daily returns, one of each of its three formats
TimesLeft == {"23h 59m", "59m 59s", "59s"}

\* ListCopy without ".copy()": the entry is the list object self.attempts
\* itself, which the field s of the value names
ListCopy_Alias(att) ==
  [PyList([i \in 1..Len(att) |-> PyStr(att[i])]) EXCEPT !.s = <<"self.attempts">>]

\* self.attempts.copy(): a new list object with the elements of attempts
ListCopy(att) == PyList([i \in 1..Len(att) |-> PyStr(att[i])])

\* WordGuruGame.get_current_state
get_current_state ==
  \E left \in IF daily_mode THEN TimesLeft ELSE {""} :
    LET state ==
          << <<"current_word",
               IF current_word = None THEN PyNone ELSE PyStr(current_word[1])>>,
             <<"attempts", ListCopy(attempts)>>,
             <<"attempts_remaining", PyInt(max_attempts - Len(attempts))>>,
             <<"game_over", PyBool(game_over)>>,
             <<"won", PyBool(won)>>,
             <<"total_attempts", PyInt(Len(attempts))>>,
             <<"player", PyStr(<<player>>)>>,
             <<"scores_path",
               IF scores_path = None THEN PyNone ELSE PyStr(<<scores_path[1]>>)>>,
             <<"daily_mode", PyBool(daily_mode)>>,
             <<"max_attempts", PyInt(max_attempts)>> >>
        daily ==
          << <<"time_until_next_daily", PyStr(<<left>>)>>,
             <<"daily_completed",
               PyBool(is_daily_completed(player, scores_path, fs, today).result)>>,
             <<"today_date", PyStr(<<DayStr(today)>>)>> >>
    IN  /\ last' = [Call("get_current_state", <<>>, "none", "") EXCEPT
                     !.result = <<PyDict(IF daily_mode THEN state \o daily ELSE state)>>]
        /\ UNCHANGED << config, current_word, attempts, game_over, won, today, fs,
                        writable, emitted, hist, procs >>

\* the caller appends the string x to the "attempts" list of the snapshot that
\* get_current_state has just returned: the list object changes, and with it
\* self.attempts if that is the same object
snapshot_append(x) ==
  /\ last.op = "get_current_state"
  /\ LET state == last.result[1]
         list == Get(state, "attempts", PyNone)
         changed == [list EXCEPT !.items = Append(@, PyStr(x))]
     IN  /\ last' = [Call("snapshot_append", <<>>, "none", "") EXCEPT
                      !.result = <<PyDict([i \in 1..Len(state.items) |->
                                     IF state.items[i][1] = "attempts"
                                     THEN <<"attempts", changed>>
                                     ELSE state.items[i]])>>]
         /\ attempts' = IF list.s = <<"self.attempts">> THEN Append(attempts, x)
                        ELSE attempts
  /\ UNCHANGED << config, current_word, game_over, won, today, fs, writable,
                  emitted, hist, procs >>

Next ==
  \/ start_game
  \/ \E raw \in RawGuesses : check_guess(raw)

Spec == Init /\ [][Next]_vars

\* sessions for the scoring: every word is the target of a session, and every
\* word is guessed
InitScorer ==
  /\ word_list \in {<<w>> : w \in Words}
  /\ max_attempts \in 1..MaxAttempts
  /\ scores_path = None
  /\ player \in Players
  /\ daily_mode = FALSE
  /\ current_word = None
  /\ attempts = <<>>
  /\ game_over = FALSE
  /\ won = FALSE
  /\ today = 1
  /\ fs = [kind |-> "missing", recs |-> <<>>]
  /\ writable = TRUE
  /\ emitted = 0
  /\ last = Call("__init__", <<>>, "none", "")
  /\ hist = <<>>
  /\ procs = <<>>

NextScorer ==
  \/ start_game
  \/ \E raw \in Words : check_guess(raw)

SpecScorer == InitScorer /\ [][NextScorer]_vars

\* word lists select_daily_word is called with: empty, one word, one word in
\* lower case with a blank before it, two and three words not all normalized
DailyLists ==
  { <<>>,
    << <<"A", "B", "A">> >>,
    << <<" ", "b", "a", "b">> >>,
    << <<"a", "b", "b">>, <<" ", "B", "A", "B">> >>,
    << <<"A", "B", "A">>, <<"a", "b", "b">>, <<"A", "A", "B">> >> }

\* a call select_daily_word(words, date)
call_select_daily_word(words, date) ==
  /\ Len(hist) < MaxCalls
  /\ LET exc == IF words = <<>> THEN "ValueError" ELSE "none"
         msg == IF words = <<>> THEN "Words list cannot be empty" ELSE ""
         word == IF words = <<>> THEN <<>> ELSE select_daily_word(words, date)
     IN  /\ hist' = Append(hist, [words |-> words, date |-> date, exc |-> exc,
                                  word |-> word])
         /\ last' = [Call("select_daily_word", words, exc, msg) EXCEPT
                      !.result = IF exc = "none" THEN <<PyStr(word)>> ELSE <<>>]
  /\ UNCHANGED << config, current_word, attempts, game_over, won, today, fs,
                  writable, emitted, procs >>

\* midnight UTC: datetime.now(timezone.utc).date() is the next day
tick ==
  /\ today + 1 \in Days
  /\ today' = today + 1
  /\ UNCHANGED << config, current_word, attempts, game_over, won, fs, writable,
                  emitted, last, hist, procs >>

\* sessions in both modes, with and without words, over two days
InitDaily ==
  /\ word_list \in { <<>>, << <<"A", "B", "B">>, <<"B", "A", "B">> >> }
  /\ max_attempts = 1
  /\ scores_path = None
  /\ player \in Players
  /\ daily_mode \in BOOLEAN
  /\ current_word = None
  /\ attempts = <<>>
  /\ game_over = FALSE
  /\ won = FALSE
  /\ today = 1
  /\ fs = File("missing", <<>>)
  /\ writable = TRUE
  /\ emitted = 0
  /\ last = Call("__init__", <<>>, "none", "")
  /\ hist = <<>>
  /\ procs = <<>>

NextDaily ==
  \/ start_game
  \/ \E words \in DailyLists, date \in Days : call_select_daily_word(words, date)
  \/ tick

SpecDaily == InitDaily /\ [][NextDaily]_vars

\* a dict with the five fields of a score, each with any value
Score(p, word, n, w, date) ==
  PyDict(<< <<"player", p>>, <<"word", word>>, <<"attempts", n>>, <<"won", w>>,
            <<"date", date>> >>)

\* records save_score accepts: those of create_score, and one whose attempts
\* is True
ValidRecords ==
  { create_score("alice", <<"A", "B", "A">>, 1, TRUE, 1),
    create_score("alice", <<"A", "B", "B">>, 2, FALSE, 2),
    create_score("bob", <<"A", "B", "A">>, 1, TRUE, 1),
    Score(PyStr(<<"bob">>), PyStr(<<"A", "B", "A">>), PyBool(TRUE), PyBool(FALSE),
          PyStr(IsoNow(2))) }

\* arguments save_score rejects: fields missing, a player, a word and a date
\* that are no strings, attempts that is a string and that is negative, won
\* that is a string, and a list in place of the dict
InvalidRecords ==
  { PyDict(<< <<"player", PyStr(<<"alice">>)>>, <<"word", PyStr(<<"A", "B", "A">>)>> >>),
    Score(PyInt(123), PyStr(<<"A", "B", "A">>), PyInt(3), PyBool(TRUE), PyStr(IsoNow(1))),
    Score(PyStr(<<"alice">>), PyNone, PyInt(3), PyBool(TRUE), PyStr(IsoNow(1))),
    Score(PyStr(<<"alice">>), PyStr(<<"A", "B", "A">>), PyStr(<<"three">>), PyBool(TRUE),
          PyStr(IsoNow(1))),
    Score(PyStr(<<"alice">>), PyStr(<<"A", "B", "A">>), PyInt(-1), PyBool(FALSE),
          PyStr(IsoNow(1))),
    Score(PyStr(<<"alice">>), PyStr(<<"A", "B", "A">>), PyInt(3), PyStr(<<"yes">>),
          PyStr(IsoNow(1))),
    Score(PyStr(<<"alice">>), PyStr(<<"A", "B", "A">>), PyInt(3), PyBool(TRUE), PyInt(5)),
    PyList(<<>>) }

\* lists a score file holds that save_score has not written: records of the
\* first day, and with them a number and records whose date is a number
StoredLists ==
  LET alice1 == create_score("alice", <<"A", "B", "A">>, 1, TRUE, 1)
      baddate(p) == Score(PyStr(<<p>>), PyStr(<<"A", "B", "A">>), PyInt(3), PyBool(TRUE),
                          PyInt(5))
  IN  { <<>>,
        <<alice1, PyInt(7)>>,
        <<PyInt(7), alice1>>,
        <<alice1, baddate("alice")>>,
        <<alice1, baddate("bob")>>,
        <<baddate("alice")>> }

\* contents of the score file when the first call is made
StoreFiles ==
  { File("missing", <<>>), File("empty", <<>>), File("malformed", <<>>),
    File("notlist", <<>>) }
    \cup {File("list", [i \in 1..Len(l) |-> JsonDump(l[i])]) : l \in StoredLists}

\* a call save_score(path, score)
call_save_score(score) ==
  /\ Len(fs.recs) < MaxStored
  /\ LET saved == save_score(fs, writable, score)
     IN  /\ fs' = saved.fs
         /\ last' = Call("save_score", <<score>>, saved.exc, "")
  /\ UNCHANGED << config, current_word, attempts, game_over, won, today, writable,
                  emitted, hist, procs >>

\* a call load_scores(path)
call_load_scores ==
  /\ LET loaded == load_scores(fs)
     IN  last' = [Call("load_scores", <<>>, loaded.exc, "") EXCEPT
                   !.result = loaded.scores]
  /\ UNCHANGED << config, current_word, attempts, game_over, won, today, fs,
                  writable, emitted, hist, procs >>

\* a call is_daily_completed(p, path); path is None or Some(path)
call_is_daily_completed(p, path) ==
  /\ LET r == is_daily_completed(p, path, fs, today)
     IN  last' = [Call("is_daily_completed",
                       <<PyStr(<<p>>), IF path = None THEN PyNone ELSE PyStr(path)>>,
                       r.exc, "") EXCEPT
                   !.result = IF r.exc = "none" THEN <<PyBool(r.result)>> ELSE <<>>]
  /\ UNCHANGED << config, current_word, attempts, game_over, won, today, fs,
                  writable, emitted, hist, procs >>

\* the score file on its own: any content, writable or not, on either day
InitStore ==
  /\ word_list = <<>>
  /\ max_attempts = 1
  /\ scores_path = Some("scores.json")
  /\ player \in Players
  /\ daily_mode = FALSE
  /\ current_word = None
  /\ attempts = <<>>
  /\ game_over = FALSE
  /\ won = FALSE
  /\ today \in Days
  /\ fs \in StoreFiles
  /\ writable \in BOOLEAN
  /\ emitted = 0
  /\ last = Call("__init__", <<>>, "none", "")
  /\ hist = <<>>
  /\ procs = <<>>

NextStore ==
  \/ \E score \in ValidRecords \cup InvalidRecords : call_save_score(score)
  \/ call_load_scores
  \/ \E p \in {"alice", "bob"}, path \in {None, Some("scores.json")} :
       call_is_daily_completed(p, path)

SpecStore == InitStore /\ [][NextStore]_vars

(***************************************************************************)
(* persistence.py: the ranking.                                            *)
(***************************************************************************)
\* the times of day of the records that are ranked
NoonStr == "T12:00:00.000000Z"

OneStr == "T13:00:00.000000Z"

\* datetime.fromisoformat(date_str.replace('Z', '+00:00')).timestamp() for a
\* date of two parts, the day and the time of day: the seconds since 1970, or
\* ok = FALSE for a string that fromisoformat does not parse
FromIsoFormat(date_str) ==
  IF Len(date_str) = 2 /\ date_str[1] \in {DayStr(1), DayStr(2)}
                      /\ date_str[2] \in {NoonStr, OneStr}
  THEN [ok |-> TRUE,
        timestamp |-> (IF date_str[1] = DayStr(1) THEN 1718409600 ELSE 1718496000)
                        + (IF date_str[2] = NoonStr THEN 43200 ELSE 46800)]
  ELSE [ok |-> FALSE, timestamp |-> 0]

\* score_key that returns date_obj.timestamp() without the minus sign
score_key_OldestFirst(score) ==
  LET is_won == Get(score, "won", PyBool(FALSE)).b
      tries == Get(score, "attempts", PyInt(1000000)).n
      date_str == Get(score, "date", PyStr(<<>>))
      parsed == IF date_str.t = "str" THEN FromIsoFormat(date_str.s)
                ELSE [ok |-> FALSE, timestamp |-> 0]
  IN  IF parsed.ok
      THEN [exc |-> "none", key |-> <<IF is_won THEN 0 ELSE 1, tries, parsed.timestamp>>]
      ELSE [exc |-> "ValueError", key |-> <<>>]

\* score_key(score): the tuple (not won, attempts, -timestamp), False as 0 and
\* True as 1; a missing attempts counts as infinity (here a million); a date
\* that does not parse, or is no string, is replaced by datetime.min, whose
\* timestamp() raises ValueError
score_key(score) ==
  LET is_won == Get(score, "won", PyBool(FALSE)).b
      tries == Get(score, "attempts", PyInt(1000000)).n
      date_str == Get(score, "date", PyStr(<<>>))
      parsed == IF date_str.t = "str" THEN FromIsoFormat(date_str.s)
                ELSE [ok |-> FALSE, timestamp |-> 0]
  IN  IF parsed.ok
      THEN [exc |-> "none", key |-> <<IF is_won THEN 0 ELSE 1, tries, 0 - parsed.timestamp>>]
      ELSE [exc |-> "ValueError", key |-> <<>>]

\* the order of Python on tuples of three numbers: a < b
TupleLess(a, b) ==
  \/ a[1] < b[1]
  \/ a[1] = b[1] /\ a[2] < b[2]
  \/ a[1] = b[1] /\ a[2] = b[2] /\ a[3] < b[3]

RECURSIVE Insert(_, _)
\* x put into the sorted list s before the first element whose key is
\* greater than the key of x: sorted() is stable
Insert(s, x) ==
  IF s = <<>> THEN <<x>>
  ELSE IF TupleLess(score_key(x).key, score_key(Head(s)).key) THEN <<x>> \o s
  ELSE <<Head(s)>> \o Insert(Tail(s), x)

RECURSIVE sorted(_)
\* sorted(scores, key=score_key), for scores whose keys do not raise
sorted(scores) ==
  IF scores = <<>> THEN <<>>
  ELSE Insert(sorted(SubSeq(scores, 1, Len(scores) - 1)), scores[Len(scores)])

\* s[:limit]: the first limit elements, all but the last -limit ones when
\* limit is negative
Slice(s, limit) ==
  LET stop == IF limit >= 0 THEN (IF limit < Len(s) THEN limit ELSE Len(s))
              ELSE (IF Len(s) + limit > 0 THEN Len(s) + limit ELSE 0)
  IN  SubSeq(s, 1, stop)

\* get_top_scores(scores, limit): the exception and the list returned
get_top_scores(scores, limit) ==
  IF scores = <<>> THEN [exc |-> "none", result |-> <<>>]
  ELSE IF \E i \in 1..Len(scores) : score_key(scores[i]).exc # "none"
  THEN [exc |-> "ValueError", result |-> <<>>]
  ELSE [exc |-> "none", result |-> Slice(sorted(scores), limit)]

\* a record of the ranking: the player, the attempts, won, the day and the
\* time of day
Ranked(p, n, w, date, time) ==
  Score(PyStr(<<p>>), PyStr(<<"A", "B", "A">>), PyInt(n), PyBool(w),
        PyStr(<<DayStr(date), time>>))

\* the records that are ranked: a lost game of one attempt, won games of one
\* and of two attempts, three won games of two attempts at different times
\* and of different players, and a record whose date is not an ISO timestamp
RankedRecords ==
  { Ranked("alice", 1, FALSE, 1, NoonStr),
    Ranked("alice", 1, TRUE, 1, NoonStr),
    Ranked("alice", 2, TRUE, 1, NoonStr),
    Ranked("bob", 2, TRUE, 1, NoonStr),
    Ranked("bob", 2, TRUE, 1, OneStr),
    Ranked("alice", 2, TRUE, 2, NoonStr),
    Score(PyStr(<<"alice">>), PyStr(<<"A", "B", "A">>), PyInt(1), PyBool(TRUE),
          PyStr(<<"yesterday">>)) }

\* the limits get_top_scores is called with
Limits == -1..(MaxRanked + 1)

\* the lists of at most n of the records
RECURSIVE RankedLists(_)
RankedLists(n) ==
  IF n = 0 THEN {<<>>}
  ELSE RankedLists(n - 1)
         \cup {Append(l, r) : l \in {m \in RankedLists(n - 1) : Len(m) = n - 1},
                              r \in RankedRecords}

\* the score files of the ranking: the lists of at most MaxRanked records
RankedFiles ==
  {File("list", [i \in 1..Len(l) |-> JsonDump(l[i])]) : l \in RankedLists(MaxRanked)}

\* get_top_scores(scores, limit) called, as show_stats calls it, with the list
\* that load_scores read from the score file
call_get_top_scores(limit) ==
  /\ LET scores == load_scores(fs).scores
         top == get_top_scores(scores, limit)
     IN  last' = [Call("get_top_scores", <<PyList(scores), PyInt(limit)>>, top.exc, "")
                   EXCEPT !.result = top.result]
  /\ UNCHANGED << config, current_word, attempts, game_over, won, today, fs,
                  writable, emitted, hist, procs >>

\* the ranking on its own
InitRanking ==
  /\ word_list = <<>>
  /\ max_attempts = 1
  /\ scores_path = Some("scores.json")
  /\ player \in Players
  /\ daily_mode = FALSE
  /\ current_word = None
  /\ attempts = <<>>
  /\ game_over = FALSE
  /\ won = FALSE
  /\ today = 1
  /\ fs \in RankedFiles
  /\ writable = TRUE
  /\ emitted = 0
  /\ last = Call("__init__", <<>>, "none", "")
  /\ hist = <<>>
  /\ procs = <<>>

NextRanking ==
  \E limit \in Limits : call_get_top_scores(limit)

SpecRanking == InitRanking /\ [][NextRanking]_vars

(***************************************************************************)
(* persistence.py: two processes in save_score on the same path.           *)
(***************************************************************************)
\* the processes
Procs == {1, 2}

\* the players of the two processes
ProcPlayer(p) == IF p = 1 THEN "alice" ELSE "bob"

\* the records process p can save: a won and a lost game of its player
ProcRecords(p) ==
  { create_score(ProcPlayer(p), <<"A", "B", "A">>, 1, TRUE, 1),
    create_score(ProcPlayer(p), <<"A", "B", "A">>, 2, FALSE, 1) }

\* the score file before the two calls
RaceFiles ==
  { File("missing", <<>>), File("list", <<>>),
    File("list", <<JsonDump(create_score("alice", <<"B", "A", "B">>, 1, TRUE, 1))>>) }

\* save_score of process p up to scores.append(score): the validation, then
\* load_scores reads the file as it is now and the record is appended in
\* memory. after: whether the other process had returned before this read.
save_load(p) ==
  /\ procs[p].pc = "called"
  /\ LET loaded == load_scores(fs)
         other == CHOOSE q \in Procs : q # p
     IN  procs' = [procs EXCEPT ![p] =
           IF ~ValidScore(procs[p].score)
           THEN [@ EXCEPT !.pc = "returned", !.exc = "ValueError"]
           ELSE IF loaded.exc # "none"
           THEN [@ EXCEPT !.pc = "returned", !.exc = "RuntimeError"]
           ELSE [@ EXCEPT !.pc = "loaded",
                          !.scores = Append(loaded.scores, procs[p].score),
                          !.after = (procs[other].pc = "returned")]]
  /\ UNCHANGED << config, current_word, attempts, game_over, won, today, fs,
                  writable, emitted, last, hist >>

\* save_score of process p at open(path, 'w'): the file is truncated, or the
\* open fails and RuntimeError is raised
save_open(p) ==
  /\ procs[p].pc = "loaded"
  /\ IF writable
     THEN /\ fs' = File("empty", <<>>)
          /\ procs' = [procs EXCEPT ![p].pc = "opened"]
     ELSE /\ fs' = fs
          /\ procs' = [procs EXCEPT ![p].pc = "returned", ![p].exc = "RuntimeError"]
  /\ UNCHANGED << config, current_word, attempts, game_over, won, today,
                  writable, emitted, last, hist >>

\* save_dump that writes the record alone and not the list it loaded
save_dump_OwnRecord(p) ==
  /\ procs[p].pc = "opened"
  /\ fs' = File("list", <<JsonDump(procs[p].score)>>)
  /\ procs' = [procs EXCEPT ![p].pc = "returned"]
  /\ UNCHANGED << config, current_word, attempts, game_over, won, today,
                  writable, emitted, last, hist >>

\* save_score of process p at json.dump and the end of the with block: the
\* list in memory is the content of the file, and the call returns
save_dump(p) ==
  /\ procs[p].pc = "opened"
  /\ fs' = File("list", [i \in 1..Len(procs[p].scores) |-> JsonDump(procs[p].scores[i])])
  /\ procs' = [procs EXCEPT ![p].pc = "returned"]
  /\ UNCHANGED << config, current_word, attempts, game_over, won, today,
                  writable, emitted, last, hist >>

\* two processes have called save_score(path, score) on the same path
InitRace ==
  /\ word_list = <<>>
  /\ max_attempts = 1
  /\ scores_path = Some("scores.json")
  /\ player \in Players
  /\ daily_mode = FALSE
  /\ current_word = None
  /\ attempts = <<>>
  /\ game_over = FALSE
  /\ won = FALSE
  /\ today = 1
  /\ fs \in RaceFiles
  /\ writable \in BOOLEAN
  /\ emitted = 0
  /\ last = Call("__init__", <<>>, "none", "")
  /\ hist = <<>>
  /\ \E r1 \in ProcRecords(1), r2 \in ProcRecords(2) :
       procs = [p \in Procs |->
                 [pc |-> "called", score |-> IF p = 1 THEN r1 ELSE r2,
                  scores |-> <<>>, exc |-> "none", after |-> FALSE]]

NextRace ==
  \E p \in Procs : save_load(p) \/ save_open(p) \/ save_dump(p)

SpecRace == InitRace /\ [][NextRace]_vars

\* the guesses of the sessions of SpecSession: the targets, a third word and a
\* guess with a digit
SessionGuesses ==
  { <<"A", "B", "A">>, <<"A", "B", "B">>, <<"A", "A", "B">>, <<"A", "1", "B">> }

\* sessions with a budget of one attempt or more, with their four public
\* operations
InitSession ==
  /\ word_list \in { << <<"A", "B", "A">> >>, << <<"A", "B", "B">>, <<"B", "A", "B">> >> }
  /\ max_attempts \in 1..MaxAttempts
  /\ scores_path \in {None, Some("scores.json")}
  /\ player \in Players
  /\ daily_mode \in BOOLEAN
  /\ current_word = None
  /\ attempts = <<>>
  /\ game_over = FALSE
  /\ won = FALSE
  /\ today = 1
  /\ fs = File("missing", <<>>)
  /\ writable = TRUE
  /\ emitted = 0
  /\ last = Call("__init__", <<>>, "none", "")
  /\ hist = <<>>
  /\ procs = <<>>

NextSession ==
  \/ start_game
  \/ \E raw \in SessionGuesses : check_guess(raw)
  \/ is_finished
  \/ get_current_state
  \/ snapshot_append(<<"B", "B", "B">>)

SpecSession == InitSession /\ [][NextSession]_vars

(***************************************************************************)
(* Sessions that are given guesses of every kind.                          *)
(***************************************************************************)
\* the guesses: two targets, a target in mixed case between blanks, too long,
\* empty, with a digit, with an inner blank, with a hyphen, with a lower-case
\* letter outside ASCII, and of three letters that have no case
TypedGuesses ==
  { <<"A", "B", "B">>, <<"B", "A", "B">>, <<" ", "b", "A", "b", " ">>,
    <<"A", "B", "A", "B">>, <<>>, <<"A", "1", "B">>, <<"A", " ", "B">>,
    <<"A", "-", "B">>, <<"A", "U+00E9", "B">>, <<"U+5B57", "U+5B57", "U+5B57">> }

\* sessions with one or two words, with and without a score path
InitTyped ==
  /\ word_list \in { << <<"B", "A", "B">> >>, << <<"A", "B", "B">>, <<"B", "A", "B">> >> }
  /\ max_attempts \in 1..MaxAttempts
  /\ scores_path \in {None, Some("scores.json")}
  /\ player \in Players
  /\ daily_mode = FALSE
  /\ current_word = None
  /\ attempts = <<>>
  /\ game_over = FALSE
  /\ won = FALSE
  /\ today = 1
  /\ fs = File("missing", <<>>)
  /\ writable = TRUE
  /\ emitted = 0
  /\ last = Call("__init__", <<>>, "none", "")
  /\ hist = <<>>
  /\ procs = <<>>

NextTyped ==
  \/ start_game
  \/ \E raw \in TypedGuesses : check_guess(raw)

SpecTyped == InitTyped /\ [][NextTyped]_vars

(***************************************************************************)
(* Sessions of several players, with several stores, over two days.        *)
(***************************************************************************)
\* the players of the sessions that share the daily word
SharedPlayers == {"alice", "bob"}

\* the word lists of these sessions, of two and of three words
SharedLists ==
  { << <<"A", "B", "B">>, <<"B", "A", "B">> >>,
    << <<"A", "B", "A">>, <<"A", "B", "B">>, <<"A", "A", "B">> >> }

\* sessions of either player in either mode, without a score path, with a
\* path to a missing file that can or cannot be written, to a blank file and
\* to a file that is no JSON
InitShared ==
  /\ word_list \in SharedLists
  /\ max_attempts = 1
  /\ scores_path \in {None, Some("scores.json")}
  /\ player \in SharedPlayers
  /\ daily_mode \in BOOLEAN
  /\ current_word = None
  /\ attempts = <<>>
  /\ game_over = FALSE
  /\ won = FALSE
  /\ today = 1
  /\ fs \in {File("missing", <<>>), File("empty", <<>>), File("malformed", <<>>)}
  /\ writable \in BOOLEAN
  /\ scores_path = None => fs.kind = "missing" /\ writable
  /\ ~writable => fs.kind = "missing"
  /\ emitted = 0
  /\ last = Call("__init__", <<>>, "none", "")
  /\ hist = <<>>
  /\ procs = <<>>

NextShared ==
  \/ start_game
  \/ \E raw \in {<<"A", "B", "B">>, <<"B", "A", "B">>, <<"A", "A", "B">>} : check_guess(raw)
  \/ tick

SpecShared == InitShared /\ [][NextShared]_vars

(***************************************************************************)
(* Sessions on word lists of every content, given or read from a file.     *)
(***************************************************************************)
RECURSIVE load_words(_)
\* io_utils.load_words on the lines of a file: each line stripped and put in
\* upper case, the empty lines and the lines that start with "#" left out; the
\* empty result stands for the RuntimeError raised when no word is found
load_words(lines) ==
  IF lines = <<>> THEN <<>>
  ELSE LET line == Upper(Strip(Head(lines)))
       IN  IF line # <<>> /\ line[1] # "#"
           THEN <<line>> \o load_words(Tail(lines))
           ELSE load_words(Tail(lines))

\* word files: two words with a comment and an empty line around them, a word
\* with a digit before a plain one, and a hyphenated word alone
ListedFiles ==
  { << <<"#", " ", "a">>, <<>>, <<" ", "b", "a", "b", " ">>, <<"a", "b", "b">> >>,
    << <<"a", "1", "b">>, <<"b", "a", "b">> >>,
    << <<"a", "-", "b">> >> }

\* word lists handed to the constructor: one plain word, a word with an inner
\* blank, and two words of different lengths
ListedLists ==
  { << <<"A", "B", "A">> >>,
    << <<"a", " ", "b">> >>,
    << <<"A", "B">>, <<"B", "A", "B">> >> }

\* the guesses: the words of the lists and one that is in none of them
ListedGuesses ==
  { <<"A", "B", "A">>, <<"A", "B", "B">>, <<"B", "A", "B">>, <<"A", "B">>,
    <<"A", "1", "B">>, <<"A", "-", "B">>, <<"A", " ", "B">>, <<"B", "B", "B">> }

\* WordGuruGame.__init__ on a given list or on what load_words returned
InitListed ==
  /\ word_list \in {[i \in 1..Len(wl) |-> Normalize(wl[i])] :
                      wl \in ListedLists \cup {load_words(f) : f \in ListedFiles}}
  /\ max_attempts \in 1..MaxAttempts
  /\ scores_path \in {None, Some("scores.json")}
  /\ player \in Players
  /\ daily_mode \in BOOLEAN
  /\ current_word = None
  /\ attempts = <<>>
  /\ game_over = FALSE
  /\ won = FALSE
  /\ today = 1
  /\ fs = File("missing", <<>>)
  /\ writable = TRUE
  /\ emitted = 0
  /\ last = Call("__init__", <<>>, "none", "")
  /\ hist = <<>>
  /\ procs = <<>>

NextListed ==
  \/ start_game
  \/ \E raw \in ListedGuesses : check_guess(raw)

SpecListed == InitListed /\ [][NextListed]_vars

(***************************************************************************)
(* __main__.py: the interactive loop.                                      *)
(***************************************************************************)
\* the exceptions of input() that end the loop
Interrupts == {"KeyboardInterrupt", "EOFError"}

\* the lines typed at the prompt: an empty line, a blank line, a target in
\* lower case, targets with and without blanks around them, a third word and
\* a line with a digit
PlayLines ==
  { <<>>, <<" ">>, <<"a", "b", "a">>, <<"A", "B", "B">>, <<" ", "B", "A", "B", " ">>,
    <<"A", "A", "B">>, <<"A", "1", "B">> }

\* AtPrompt for a loop "while True" in place of "while not game.is_finished()"
AtPrompt_NoFinishedTest ==
  /\ current_word # None
  /\ last.op \in {"start_game", "check_guess", "input"}
  /\ last.exc \in {"none", "ValueError"}

\* play_interactive_game is at input(): the session was started, the test
\* "while not game.is_finished()" has passed and no exception has left the loop
AtPrompt ==
  /\ current_word # None
  /\ ~game_over
  /\ last.op \in {"start_game", "check_guess", "input"}
  /\ last.exc \in {"none", "ValueError"}

\* the first statement of play_interactive_game: game.start_game()
play_start ==
  /\ last.op = "__init__"
  /\ start_game

\* one turn of the loop on the line raw: the line is stripped, an empty guess
\* goes back to the prompt, any other is given to check_guess, whose
\* ValueError is caught and printed
play_input(raw) ==
  /\ AtPrompt
  /\ LET guess == Strip(raw)
     IN  IF guess = <<>>
         THEN Raise("input", raw, "none", "")
         ELSE check_guess(guess)

\* play_interrupt with a handler that ends the session and saves its score
play_interrupt_Saves(exc) ==
  /\ AtPrompt
  /\ LET saved == save_game_score(attempts, won)
     IN  /\ game_over' = TRUE
         /\ fs' = saved.fs
         /\ emitted' = emitted + saved.calls
         /\ last' = Call("input", <<>>, exc, "")
  /\ UNCHANGED << config, current_word, attempts, won, today, writable, hist, procs >>

\* input() raises KeyboardInterrupt or EOFError: the handler prints a
\* farewell and breaks out of the loop
play_interrupt(exc) ==
  /\ AtPrompt
  /\ Raise("input", <<>>, exc, "")

\* WordGuruGame.__init__ as main calls it before play_interactive_game
InitPlay ==
  /\ word_list \in { << <<"A", "B", "A">> >>, << <<"A", "B", "B">>, <<"B", "A", "B">> >> }
  /\ max_attempts \in 1..MaxAttempts
  /\ scores_path \in {None, Some("scores.json")}
  /\ player \in Players
  /\ daily_mode \in BOOLEAN
  /\ current_word = None
  /\ attempts = <<>>
  /\ game_over = FALSE
  /\ won = FALSE
  /\ today = 1
  /\ fs = File("missing", <<>>)
  /\ writable \in BOOLEAN
  /\ scores_path = None => writable
  /\ emitted = 0
  /\ last = Call("__init__", <<>>, "none", "")
  /\ hist = <<>>
  /\ procs = <<>>

NextPlay ==
  \/ play_start
  \/ \E raw \in PlayLines : play_input(raw)
  \/ \E exc \in Interrupts : play_interrupt(exc)

SpecPlay == InitPlay /\ [][NextPlay]_vars

\* a turn of the loop whose guess passes the validation of check_guess
play_accepted ==
  /\ AtPrompt
  /\ \E raw \in PlayLines : \E guess \in {Strip(raw)} : \E g \in {Normalize(guess)} :
       /\ Len(g) = Len(current_word[1])
       /\ IsAlpha(g)
       /\ Accept(guess, g)

\* the loop with a player who, as long as the prompt is shown, enters a guess
\* that passes validation sooner or later; the program itself goes on from
\* the constructor to start_game
SpecPlayFair ==
  InitPlay /\ [][NextPlay]_vars /\ WF_vars(play_start) /\ WF_vars(play_accepted)

(***************************************************************************)
(* daily.py: the next reset and the countdown. Instants are whole seconds  *)
(* since 00:00:00 UTC of the first day.                                     *)
(***************************************************************************)
\* the seconds of a day
DaySeconds == 86400

\* the times of day at which the clock is read: midnight and the seconds
\* around it, and the times around which the countdown changes its format
ClockTimes ==
  { 0, 1, 2, 59, 60, 61, 3600, 43200, 82799, 82800, 82801, 86339, 86340, 86341,
    86398, 86399 }

\* the seconds that pass between the two reads of time_until_next_daily
ClockGaps == {0, 1, 2}

\* str(n) of a natural number, digit by digit
RECURSIVE Str(_)
Str(n) ==
  LET digit(d) == <<"0", "1", "2", "3", "4", "5", "6", "7", "8", "9">>[d + 1]
  IN  IF n < 10 THEN <<digit(n)>> ELSE Str(n \div 10) \o <<digit(n % 10)>>

\* get_next_daily_reset() when the clock reads now: midnight of the day after
\* now.date()
get_next_daily_reset(now) == ((now \div DaySeconds) + 1) * DaySeconds

\* time_until_next_daily() when its own clock read gives now and the read of
\* get_next_daily_reset gives later: delta.seconds is the part of the
\* difference below one day
time_until_next_daily(now, later) ==
  LET delta == get_next_daily_reset(later) - now
      delta_seconds == delta % DaySeconds
      hours == delta_seconds \div 3600
      minutes == (delta_seconds % 3600) \div 60
      seconds == delta_seconds % 60
  IN  IF hours > 0 THEN Str(hours) \o <<"h", " ">> \o Str(minutes) \o <<"m">>
      ELSE IF minutes > 0 THEN Str(minutes) \o <<"m", " ">> \o Str(seconds) \o <<"s">>
      ELSE Str(seconds) \o <<"s">>

\* a call get_next_daily_reset() at the instant now
call_get_next_daily_reset(now) ==
  /\ last' = [Call("get_next_daily_reset", <<PyInt(now)>>, "none", "") EXCEPT
               !.result = <<PyInt(get_next_daily_reset(now))>>]
  /\ UNCHANGED << config, current_word, attempts, game_over, won, today, fs,
                  writable, emitted, hist, procs >>

\* a call time_until_next_daily() whose two clock reads give now and later
call_time_until_next_daily(now, later) ==
  /\ last' = [Call("time_until_next_daily", <<PyInt(now), PyInt(later)>>, "none", "")
               EXCEPT !.result = <<PyStr(time_until_next_daily(now, later))>>]
  /\ UNCHANGED << config, current_word, attempts, game_over, won, today, fs,
                  writable, emitted, hist, procs >>

\* the two functions on their own
InitClock ==
  /\ word_list = <<>>
  /\ max_attempts = 1
  /\ scores_path = None
  /\ player \in Players
  /\ daily_mode = FALSE
  /\ current_word = None
  /\ attempts = <<>>
  /\ game_over = FALSE
  /\ won = FALSE
  /\ today = 1
  /\ fs = File("missing", <<>>)
  /\ writable = TRUE
  /\ emitted = 0
  /\ last = Call("__init__", <<>>, "none", "")
  /\ hist = <<>>
  /\ procs = <<>>

NextClock ==
  \E day \in Days, time \in ClockTimes :
    \/ call_get_next_daily_reset((day - 1) * DaySeconds + time)
    \/ \E gap \in ClockGaps :
         call_time_until_next_daily((day - 1) * DaySeconds + time,
                                    (day - 1) * DaySeconds + time + gap)

SpecClock == InitClock /\ [][NextClock]_vars

(***************************************************************************)
(* __main__.py: runs of main, one after the other, on the same score file. *)
(***************************************************************************)
\* the word file of --words: not there, without a word, or with two words
WordFiles == {"missing", "empty", "words"}

\* load_words on the word file with two words: the lines stripped and in
\* upper case
LoadedWords == << Strip(Upper(<<"a", "b", "b">>)), Strip(Upper(<<"B", "A", "B", " ">>)) >>

\* the values of --max-attempts: below 1 and 1
MainBudgets == {0, 1}

\* main returns code: what the run leaves in "last"; args are the player, the
\* mode flag and the stats flag of the run
Exit(args, code, msg) ==
  [Call("main", args, "none", msg) EXCEPT !.result = <<PyInt(code)>>]

\* no run of main is in progress
Idle == last.op \in {"shell", "main"}

\* main with the gate "if is_daily_completed(...)" left out
main_NoGate(words, max, p, daily, stats) ==
  /\ Idle
  /\ LET args == <<p, IF daily THEN "--daily" ELSE "", IF stats THEN "--stats" ELSE "">>
     IN  IF max < 1
         THEN /\ last' = Exit(args, 1, "max-attempts must be at least 1")
              /\ UNCHANGED << config, current_word, attempts, game_over, won, emitted >>
         ELSE IF words = "missing"
         THEN /\ last' = Exit(args, 1, "Word file not found")
              /\ UNCHANGED << config, current_word, attempts, game_over, won, emitted >>
         ELSE IF stats
         THEN /\ last' = Exit(args, 0, "")
              /\ UNCHANGED << config, current_word, attempts, game_over, won, emitted >>
         ELSE IF words = "empty"
         THEN /\ last' = Exit(args, 1, "Error loading words")
              /\ UNCHANGED << config, current_word, attempts, game_over, won, emitted >>
         ELSE /\ word_list' = [i \in 1..Len(LoadedWords) |-> Normalize(LoadedWords[i])]
              /\ max_attempts' = max
              /\ player' = p
              /\ daily_mode' = daily
              /\ current_word' = None
              /\ attempts' = <<>>
              /\ game_over' = FALSE
              /\ won' = FALSE
              /\ emitted' = 0
              /\ last' = Call("__init__", args, "none", "")
              /\ scores_path' = scores_path
  /\ UNCHANGED << today, fs, writable, hist, procs >>

\* main up to play_interactive_game(game), for the arguments --words,
\* --max-attempts, --player, --daily and --stats and the default scores path:
\* the tests of the arguments, show_stats, load_words, the daily gate and the
\* construction of the session
main(words, max, p, daily, stats) ==
  /\ Idle
  /\ LET args == <<p, IF daily THEN "--daily" ELSE "", IF stats THEN "--stats" ELSE "">>
     IN  IF max < 1
         THEN /\ last' = Exit(args, 1, "max-attempts must be at least 1")
              /\ UNCHANGED << config, current_word, attempts, game_over, won, emitted >>
         ELSE IF words = "missing"
         THEN /\ last' = Exit(args, 1, "Word file not found")
              /\ UNCHANGED << config, current_word, attempts, game_over, won, emitted >>
         ELSE IF stats
         THEN /\ last' = Exit(args, 0, "")
              /\ UNCHANGED << config, current_word, attempts, game_over, won, emitted >>
         ELSE IF words = "empty"
         THEN /\ last' = Exit(args, 1, "Error loading words")
              /\ UNCHANGED << config, current_word, attempts, game_over, won, emitted >>
         ELSE IF daily /\ is_daily_completed(p, scores_path, fs, today).result
         THEN /\ last' = Exit(args, 0, "Daily Word Already Completed!")
              /\ UNCHANGED << config, current_word, attempts, game_over, won, emitted >>
         ELSE /\ word_list' = [i \in 1..Len(LoadedWords) |-> Normalize(LoadedWords[i])]
              /\ max_attempts' = max
              /\ player' = p
              /\ daily_mode' = daily
              /\ current_word' = None
              /\ attempts' = <<>>
              /\ game_over' = FALSE
              /\ won' = FALSE
              /\ emitted' = 0
              /\ last' = Call("__init__", args, "none", "")
              /\ scores_path' = scores_path
  /\ UNCHANGED << today, fs, writable, hist, procs >>

\* play_interactive_game has returned, the loop being left by its test or by
\* break, and main returns 0
main_return ==
  /\ last.op \in {"start_game", "check_guess", "input"}
  /\ game_over \/ last.exc \in Interrupts
  /\ last' = Exit(<<>>, 0, "")
  /\ UNCHANGED << config, current_word, attempts, game_over, won, today, fs,
                  writable, emitted, hist, procs >>

\* the shell before the first run: no session object exists yet, and the score
\* file of the default path is not there
InitMain ==
  /\ word_list = <<>>
  /\ max_attempts = 1
  /\ scores_path = Some("scores.json")
  /\ player = "alice"
  /\ daily_mode = FALSE
  /\ current_word = None
  /\ attempts = <<>>
  /\ game_over = FALSE
  /\ won = FALSE
  /\ today = 1
  /\ fs = File("missing", <<>>)
  /\ writable = TRUE
  /\ emitted = 0
  /\ last = Call("shell", <<>>, "none", "")
  /\ hist = <<>>
  /\ procs = <<>>

NextMain ==
  \/ \E words \in WordFiles, max \in MainBudgets, p \in SharedPlayers,
        daily \in BOOLEAN, stats \in BOOLEAN : main(words, max, p, daily, stats)
  \/ play_start
  \/ \E raw \in {<<"a", "b", "b">>, <<"B", "A", "B">>} : play_input(raw)
  \/ play_interrupt("KeyboardInterrupt")
  \/ main_return
  \/ tick

SpecMain == InitMain /\ [][NextMain]_vars

(***************************************************************************)
(* Properties of the session.                                              *)
(***************************************************************************)

\* C1: once game_over is true, every further check_guess call fails with a
\* finished-state error and leaves attempts, won and game_over unchanged.
C1_FinishedRejectsGuess ==
  [][(game_over /\ last'.op = "check_guess")
       => /\ last'.exc # "none"
          /\ attempts' = attempts
          /\ won' = won
          /\ game_over' = game_over]_vars

\* C2: in a started session with max_attempts = N >= 1 whose accepted guesses
\* all differ from the target, game_over is false while fewer than N guesses
\* were accepted, and with exactly N accepted guesses game_over is true and
\* won is false.
C2_LostExactlyAtBudget ==
  (/\ current_word # None
   /\ max_attempts >= 1
   /\ \A i \in 1..Len(attempts) : attempts[i] # current_word[1])
    => /\ Len(attempts) < max_attempts => ~game_over
       /\ Len(attempts) = max_attempts => game_over /\ ~won

\* C2 witness: a session with a budget of two lost at its second wrong guess.
C2_Witness ==
  /\ current_word # None
  /\ max_attempts = 2
  /\ Len(attempts) = 2
  /\ \A i \in 1..Len(attempts) : attempts[i] # current_word[1]
  /\ game_over
  /\ ~won

C4_RejectedGuessChangesNothing ==
  [][(/\ current_word # None
      /\ last'.op = "check_guess"
      /\ \/ Len(Normalize(last'.arg)) # Len(current_word[1])
         \/ ~IsAlpha(Normalize(last'.arg)))
       => /\ last'.exc = "ValueError"
          /\ last'.statuses = <<>>
          /\ UNCHANGED << current_word, attempts, won, game_over, fs, emitted >>]_vars

\* C4 witness: a guess with a digit was rejected after one accepted guess.
C4_Witness ==
  /\ current_word # None
  /\ last.op = "check_guess"
  /\ last.exc = "ValueError"
  /\ last.arg = <<"A", "1", "B">>
  /\ Len(attempts) = 1
  /\ ~game_over

\* C5: with a score path, a session that is finished has made exactly one
\* save_score call and a session that is not finished has made none.
C5_OneRecordPerFinishedSession ==
  (scores_path # None /\ current_word # None)
    => /\ game_over => emitted = 1
       /\ ~game_over => emitted = 0

\* C6: when the save fails at a finishing guess (unwritable path, malformed
\* file, file that is not a list), check_guess raises nothing, returns the
\* letter statuses, and attempts, won and game_over get the values they get
\* when the save succeeds.
C6_SaveFailureKeepsOutcome ==
  [][(/\ last'.op = "check_guess"
      /\ attempts' # attempts
      /\ game_over'
      /\ scores_path # None
      /\ (~writable \/ fs.kind \in {"malformed", "notlist"}))
       => /\ last'.exc = "none"
          /\ last'.printed = "warning"
          /\ last'.statuses = letter_statuses(Normalize(last'.arg), current_word[1])
          /\ attempts' = Append(attempts, Normalize(last'.arg))
          /\ won' = (won \/ Normalize(last'.arg) = current_word[1])
          /\ fs' = fs]_vars

\* C6 witness: a session won at a guess whose save failed on a malformed file.
C6_Witness ==
  /\ last.op = "check_guess"
  /\ last.printed = "warning"
  /\ last.exc = "none"
  /\ fs.kind = "malformed"
  /\ game_over
  /\ won

\* C7: the statuses returned for an accepted guess have one entry per letter
\* of the guess, each of correct, present or absent, and position i is
\* correct exactly when the guess and the target agree at i.
C7_StatusesWellFormed ==
  (last.op = "check_guess" /\ last.exc = "none")
    => LET guess == Normalize(last.arg)
           target == current_word[1]
       IN  /\ Len(last.statuses) = Len(guess)
           /\ \A i \in 1..Len(guess) :
                /\ last.statuses[i] \in {"correct", "present", "absent"}
                /\ last.statuses[i] = "correct" <=> guess[i] = target[i]

\* C7 witness: an accepted guess with a letter of the target at a position
\* where the target has another letter, and a matching position too.
C7_Witness ==
  /\ last.op = "check_guess"
  /\ last.exc = "none"
  /\ \E i \in 1..Len(last.statuses) : last.statuses[i] = "correct"
  /\ \E i \in 1..Len(last.statuses) :
       /\ last.statuses[i] # "correct"
       /\ \E j \in 1..Len(current_word[1]) : current_word[1][j] = Normalize(last.arg)[i]

\* C8: for every letter c, the positions of the guess that hold c and are
\* marked correct or present are as many as the smaller of the number of c in
\* the target and the number of c in the guess; APPLE/ALLOW and APPLE/PLANE
\* give the statuses of the two worked examples.
C8_NoOverCount ==
  /\ (last.op = "check_guess" /\ last.exc = "none")
       => LET guess == Normalize(last.arg)
              target == current_word[1]
              inGuess(c) == Cardinality({i \in 1..Len(guess) : guess[i] = c})
              inTarget(c) == Cardinality({i \in 1..Len(target) : target[i] = c})
              marked(c) == Cardinality({i \in 1..Len(guess) :
                              /\ guess[i] = c
                              /\ last.statuses[i] \in {"correct", "present"}})
          IN  \A c \in UpperLetters :
                marked(c) = IF inGuess(c) < inTarget(c) THEN inGuess(c) ELSE inTarget(c)
  /\ letter_statuses(<<"A", "L", "L", "O", "W">>, <<"A", "P", "P", "L", "E">>)
       = <<"correct", "present", "absent", "absent", "absent">>
  /\ letter_statuses(<<"P", "L", "A", "N", "E">>, <<"A", "P", "P", "L", "E">>)
       = <<"present", "present", "present", "absent", "correct">>

\* C8 witness: an accepted guess holds a letter more often than the target,
\* which holds it too, and one of its occurrences is marked absent.
C8_Witness ==
  /\ last.op = "check_guess"
  /\ last.exc = "none"
  /\ \E i \in 1..Len(last.statuses) :
       /\ last.statuses[i] = "absent"
       /\ \E j \in 1..Len(current_word[1]) : current_word[1][j] = Normalize(last.arg)[i]

\* C9: among the occurrences of a letter that are not correct, present is
\* given from left to right: no absent one stands before a present one.
C9_PresentLeftToRight ==
  (last.op = "check_guess" /\ last.exc = "none")
    => LET guess == Normalize(last.arg)
       IN  ~ \E i \in 1..Len(guess), j \in 1..Len(guess) :
               /\ i < j
               /\ guess[i] = guess[j]
               /\ last.statuses[i] = "absent"
               /\ last.statuses[j] = "present"

\* C9 witness: two misplaced occurrences of one letter, the left one present
\* and the right one absent.
C9_Witness ==
  /\ last.op = "check_guess"
  /\ last.exc = "none"
  /\ \E i \in 1..Len(last.statuses), j \in 1..Len(last.statuses) :
       /\ i < j
       /\ Normalize(last.arg)[i] = Normalize(last.arg)[j]
       /\ last.statuses[i] = "present"
       /\ last.statuses[j] = "absent"

\* C10: check_guess on a session without a target raises RuntimeError, not the
\* ValueError of the input validation, for every guess, and leaves attempts,
\* won and game_over unchanged.
C10_NotStartedRejectsGuess ==
  [][(current_word = None /\ last'.op = "check_guess")
       => /\ last'.exc = "RuntimeError"
          /\ last'.msg = "Game not started"
          /\ UNCHANGED << current_word, attempts, won, game_over, fs, emitted >>]_vars

\* C10 witness: a well-formed word was guessed before start_game.
C10_Witness ==
  /\ current_word = None
  /\ last.op = "check_guess"
  /\ last.exc = "RuntimeError"
  /\ last.arg \in Words
  /\ attempts = <<>>
  /\ ~game_over

(***************************************************************************)
(* Properties of the session over its four public operations.              *)
(***************************************************************************)

\* C11 as stated: over start_game, check_guess, is_finished and
\* get_current_state, game_over never changes from true to false, won never
\* changes from true to false, and attempts never shrinks.
C11_TerminalAbsorbing ==
  [][/\ game_over => game_over'
     /\ won => won'
     /\ Len(attempts') >= Len(attempts)
     /\ SubSeq(attempts', 1, Len(attempts)) = attempts]_vars

\* C11, amended: over check_guess, is_finished and get_current_state,
\* game_over never changes from true to false, won never changes from true to
\* false and attempts only grows at its end; start_game is the one operation
\* that leaves a finished state: it begins a new session with attempts empty
\* and won and game_over false.
C11_AbsorbingUntilRestart ==
  [][/\ last'.op # "start_game"
          => /\ game_over => game_over'
             /\ won => won'
             /\ Len(attempts') >= Len(attempts)
             /\ SubSeq(attempts', 1, Len(attempts)) = attempts
     /\ (last'.op = "start_game" /\ last'.exc = "none")
          => attempts' = <<>> /\ ~won' /\ ~game_over']_vars

\* C11 witness: the state of a won session was read after a guess that was
\* made on the finished session.
C11_Witness ==
  /\ last.op = "get_current_state"
  /\ game_over
  /\ won
  /\ Len(attempts) > max_attempts

(***************************************************************************)
(* Properties of the daily selector.                                       *)
(***************************************************************************)

\* C12 as stated: any two select_daily_word calls with the same non-empty
\* list and the same date return the same word, whatever was called before
\* and whatever the session and the clock are; and for a list of one element
\* the call returns that element, at every date.
C12_DeterministicReturnsElement ==
  /\ \A i \in 1..Len(hist), j \in 1..Len(hist) :
       (hist[i].words = hist[j].words /\ hist[i].date = hist[j].date)
         => hist[i].word = hist[j].word
  /\ \A i \in 1..Len(hist) :
       Len(hist[i].words) = 1 => hist[i].word = hist[i].words[1]

\* C12, amended: any two select_daily_word calls with the same non-empty list
\* and the same date return the same word, whatever was called before and
\* whatever the session and the clock are; and for a list of one element the
\* call returns the uppercased, trimmed form of that element, at every date.
C12_DeterministicReturnsNormalized ==
  /\ \A i \in 1..Len(hist), j \in 1..Len(hist) :
       (hist[i].words = hist[j].words /\ hist[i].date = hist[j].date)
         => hist[i].word = hist[j].word
  /\ \A i \in 1..Len(hist) :
       Len(hist[i].words) = 1 => hist[i].word = Normalize(hist[i].words[1])

\* C12 witness: the same list of two words was passed twice with the first
\* day as the date, once on that day and once after midnight.
C12_Witness ==
  /\ today = 2
  /\ Len(hist) = 2
  /\ Len(hist[1].words) = 2
  /\ hist[1].words = hist[2].words
  /\ hist[1].date = 1
  /\ hist[2].date = 1

\* C13: for a non-empty list and a date, select_daily_word returns the
\* uppercased, trimmed form of words[seed mod len(words)], seed being the
\* unsigned number of the first 8 hex digits of the hash of the date (0e7e152c
\* and b73ac605, taken here as two 16-bit halves); the index lies in
\* 0..len(words)-1 and the result is an element of the normalized list.
C13_SeedModLen ==
  \A k \in 1..Len(hist) :
    hist[k].words # <<>>
      => LET words == hist[k].words
             n == Len(words)
             hi == IF hist[k].date = 1 THEN 3710 ELSE 46906
             lo == IF hist[k].date = 1 THEN 5420 ELSE 50693
             index == ((hi % n) * (65536 % n) + (lo % n)) % n
         IN  /\ index \in 0..(n - 1)
             /\ hist[k].word = Strip(Upper(words[index + 1]))
             /\ \E i \in 1..n : hist[k].word = Normalize(words[i])

\* C13 witness: on the first day the second of three words was selected, a
\* word in lower case, and returned in upper case; on the second day the
\* second of two words, without its blank.
C13_Witness ==
  /\ Len(hist) = 2
  /\ hist[1].date = 1
  /\ Len(hist[1].words) = 3
  /\ hist[1].word = <<"A", "B", "B">>
  /\ hist[1].word # hist[1].words[2]
  /\ hist[2].date = 2
  /\ Len(hist[2].words) = 2
  /\ hist[2].word = <<"B", "A", "B">>

\* C14: with an empty list select_daily_word raises the ValueError "Words
\* list cannot be empty" at every date, and start_game raises ValueError in
\* random and in daily mode and leaves the target, attempts, won and
\* game_over unchanged.
C14_EmptyListRejected ==
  [][/\ \A k \in 1..Len(hist') :
          hist'[k].words = <<>> => hist'[k].exc = "ValueError" /\ hist'[k].word = <<>>
     /\ (last'.op = "select_daily_word" /\ last'.arg = <<>>)
          => /\ last'.exc = "ValueError"
             /\ last'.msg = "Words list cannot be empty"
             /\ last'.result = <<>>
     /\ (word_list = <<>> /\ last'.op = "start_game")
          => /\ last'.exc = "ValueError"
             /\ UNCHANGED << current_word, attempts, won, game_over >>
             /\ current_word' = None]_vars

\* C14 witness: start_game failed on a session in random mode without words,
\* after select_daily_word had failed on the empty list for both dates.
C14_Witness ==
  /\ word_list = <<>>
  /\ ~daily_mode
  /\ last.op = "start_game"
  /\ last.exc = "ValueError"
  /\ current_word = None
  /\ Len(hist) = 2
  /\ hist[1].words = <<>> /\ hist[1].exc = "ValueError" /\ hist[1].date = 1
  /\ hist[2].words = <<>> /\ hist[2].exc = "ValueError" /\ hist[2].date = 2

(***************************************************************************)
(* Properties of the constructor.                                          *)
(***************************************************************************)

\* C15: every constructed session holds a word list that is not empty, whose
\* words have one length and whose words are alphabetic (construction raises
\* ValueError for every other list).
C15_ConstructedListValid ==
  /\ word_list # <<>>
  /\ \A i \in 1..Len(word_list) : IsAlpha(word_list[i])
  /\ \A i \in 1..Len(word_list), j \in 1..Len(word_list) :
       Len(word_list[i]) = Len(word_list[j])

(***************************************************************************)
(* Properties of the daily completion test and of the score file.          *)
(***************************************************************************)

\* C16 as stated: is_daily_completed(player, path) returns true if and only
\* if the stored list holds a record of that player whose date starts with the
\* current UTC day; so it returns false when all of the player's records are
\* of earlier days and when only other players have records of today.
C16_CompletedIffRecordOfToday ==
  last.op = "is_daily_completed"
    => LET p == last.arg[1]
           entry(i) == JsonLoad(fs.recs[i])
           today_str == <<DayStr(today)>>
           matches(i) ==
             /\ entry(i).t = "dict"
             /\ Get(entry(i), "player", PyNone) = p
             /\ Get(entry(i), "date", PyNone).t = "str"
             /\ StartsWith(Get(entry(i), "date", PyNone).s, today_str)
       IN  last.result = <<PyBool(TRUE)>>
             <=> /\ last.arg[2] # PyNone
                 /\ fs.kind = "list"
                 /\ \E i \in 1..Len(fs.recs) : matches(i)

\* C16, amended: is_daily_completed(player, path) returns true if and only if
\* the stored list holds a record of that player whose date starts with the
\* current UTC day and no entry after that record is either no dict or a dict
\* of that player whose date is no string; for a list of records with string
\* players and dates that is: if and only if the list holds a record of that
\* player of today, so it returns false when all of the player's records are
\* of earlier days and when only other players have records of today.
C16_CompletedIffRecordOfTodayRead ==
  last.op = "is_daily_completed"
    => LET p == last.arg[1]
           entry(i) == JsonLoad(fs.recs[i])
           today_str == <<DayStr(today)>>
           matches(i) ==
             /\ entry(i).t = "dict"
             /\ Get(entry(i), "player", PyNone) = p
             /\ Get(entry(i), "date", PyNone).t = "str"
             /\ StartsWith(Get(entry(i), "date", PyNone).s, today_str)
           readable(j) ==
             /\ entry(j).t = "dict"
             /\ Get(entry(j), "player", PyNone) = p
                  => Get(entry(j), "date", PyStr(<<>>)).t = "str"
           wellformed(j) ==
             /\ entry(j).t = "dict"
             /\ Get(entry(j), "player", PyNone).t = "str"
             /\ Get(entry(j), "date", PyNone).t = "str"
           completed == last.result = <<PyBool(TRUE)>>
       IN  /\ completed
               <=> /\ last.arg[2] # PyNone
                   /\ fs.kind = "list"
                   /\ \E i \in 1..Len(fs.recs) :
                        /\ matches(i)
                        /\ \A j \in (i + 1)..Len(fs.recs) : readable(j)
           /\ (/\ last.arg[2] # PyNone
               /\ fs.kind = "list"
               /\ \A j \in 1..Len(fs.recs) : wellformed(j))
                => (completed <=> \E i \in 1..Len(fs.recs) : matches(i))

\* C16 witness: true was returned for a player whose record of today is
\* followed in the list by a record of another player.
C16_Witness ==
  /\ last.op = "is_daily_completed"
  /\ last.result = <<PyBool(TRUE)>>
  /\ Len(fs.recs) >= 2
  /\ Get(JsonLoad(fs.recs[1]), "player", PyNone) = last.arg[1]
  /\ JsonLoad(fs.recs[Len(fs.recs)]).t = "dict"
  /\ Get(JsonLoad(fs.recs[Len(fs.recs)]), "player", PyNone) # last.arg[1]
  /\ Get(JsonLoad(fs.recs[Len(fs.recs)]), "date", PyNone).t = "str"

\* C17: is_daily_completed never raises, and it returns false for a None
\* path, a missing file, a file that is no JSON, a JSON value that is no list
\* and a list none of whose entries is a well-formed record (a dict with a
\* string player and a string date).
C17_CompletedNeverRaises ==
  last.op = "is_daily_completed"
    => /\ last.exc = "none"
       /\ last.result \in {<<PyBool(TRUE)>>, <<PyBool(FALSE)>>}
       /\ (\/ last.arg[2] = PyNone
           \/ fs.kind \in {"missing", "malformed", "notlist"}
           \/ /\ fs.kind = "list"
              /\ \A i \in 1..Len(fs.recs) :
                   LET entry == JsonLoad(fs.recs[i])
                   IN  \/ entry.t # "dict"
                       \/ Get(entry, "player", PyNone).t # "str"
                       \/ Get(entry, "date", PyNone).t # "str")
            => last.result = <<PyBool(FALSE)>>

\* C17 witness: false was returned for a list whose one entry is a record of
\* the player with a number as its date.
C17_Witness ==
  /\ last.op = "is_daily_completed"
  /\ last.exc = "none"
  /\ last.result = <<PyBool(FALSE)>>
  /\ last.arg[2] # PyNone
  /\ fs.kind = "list"
  /\ Len(fs.recs) = 1
  /\ Get(JsonLoad(fs.recs[1]), "player", PyNone) = last.arg[1]
  /\ Get(JsonLoad(fs.recs[1]), "date", PyNone).t = "int"

\* C18: after a successful save_score(path, r) on a file holding the list S
\* (S empty when there is no file), load_scores(path) returns S with r
\* appended: the earlier entries unchanged and in order, and a last element
\* that equals r field for field.
C18_SaveThenLoadAppends ==
  [][(last'.op = "save_score" /\ last'.exc = "none")
       => LET r == last'.arg[1]
              before == load_scores(fs)
              after == load_scores(fs')
          IN  /\ before.exc = "none"
              /\ after.exc = "none"
              /\ Len(after.scores) = Len(before.scores) + 1
              /\ \A i \in 1..Len(before.scores) : after.scores[i] = before.scores[i]
              /\ after.scores[Len(after.scores)] = r
              /\ \A key \in {"player", "word", "attempts", "won", "date"} :
                   Get(after.scores[Len(after.scores)], key, PyNone) = Get(r, key, PyNone)]_vars

\* C18 witness: a record was saved to a list of two entries, the first of
\* them a number, and the three are in the file in that order.
C18_Witness ==
  /\ last.op = "save_score"
  /\ last.exc = "none"
  /\ fs.kind = "list"
  /\ Len(fs.recs) = 3
  /\ JsonLoad(fs.recs[1]) = PyInt(7)
  /\ JsonLoad(fs.recs[2]).t = "dict"
  /\ JsonLoad(fs.recs[3]) = last.arg[1]

C20_LoadFailsOnEveryNonList ==
  last.op = "load_scores"
    => /\ fs.kind = "missing" => last.exc = "none" /\ last.result = <<>>
       /\ fs.kind = "list"
            => /\ last.exc = "none"
               /\ Len(last.result) = Len(fs.recs)
               /\ \A i \in 1..Len(fs.recs) : JsonDump(last.result[i]) = fs.recs[i]
       /\ fs.kind \in {"empty", "malformed", "notlist"} => last.exc # "none"

\* C20, amended: load_scores returns the empty list when there is no file and
\* when the file holds no text or blanks only, returns the stored list when
\* the file holds a JSON list, and raises RuntimeError whenever the file holds
\* other text that is no JSON or a JSON value that is no list.
C20_LoadFailsOnNonEmptyNonList ==
  last.op = "load_scores"
    => /\ fs.kind \in {"missing", "empty"} => last.exc = "none" /\ last.result = <<>>
       /\ fs.kind = "list"
            => /\ last.exc = "none"
               /\ Len(last.result) = Len(fs.recs)
               /\ \A i \in 1..Len(fs.recs) : JsonDump(last.result[i]) = fs.recs[i]
       /\ fs.kind \in {"malformed", "notlist"}
            => last.exc = "RuntimeError" /\ last.result = <<>>

\* C20 witness: the empty list was returned for a file without text.
C20_Witness ==
  /\ last.op = "load_scores"
  /\ last.exc = "none"
  /\ last.result = <<>>
  /\ fs.kind = "empty"

\* C24: start_game on a session whose word list is not empty raises nothing
\* and leaves the session in progress: the target is an element of the word
\* list, which is normalized and unchanged, attempts is empty, and won and
\* game_over are false.
C24_StartGameInProgress ==
  [][(last'.op = "start_game" /\ word_list # <<>>)
       => /\ last'.exc = "none"
          /\ current_word' # None
          /\ \E i \in 1..Len(word_list) :
               current_word' = Some(word_list[i]) /\ word_list[i] = Normalize(word_list[i])
          /\ attempts' = <<>>
          /\ ~won'
          /\ ~game_over'
          /\ word_list' = word_list]_vars

\* C24 witness: a session with a list of two words was started and has the
\* second word of the list as target, no attempts, and is neither won nor over.
C24_Witness ==
  /\ last.op = "start_game"
  /\ last.exc = "none"
  /\ Len(word_list) = 2
  /\ current_word = Some(word_list[2])
  /\ attempts = <<>>
  /\ ~won
  /\ ~game_over

\* C25: is_finished and get_current_state change no field of the session and
\* not the score file, in any state. is_finished returns game_over. The
\* snapshot has attempts equal to the session's, total_attempts =
\* len(attempts), attempts_remaining = max_attempts - total_attempts, and the
\* session's game_over and won; appending to the snapshot's attempts list
\* changes the snapshot and leaves the session as it was.
C25_QueriesArePure ==
  [][/\ last'.op \in {"is_finished", "get_current_state", "snapshot_append"}
          => /\ word_list' = word_list /\ max_attempts' = max_attempts
             /\ scores_path' = scores_path /\ player' = player
             /\ daily_mode' = daily_mode /\ current_word' = current_word
             /\ attempts' = attempts /\ game_over' = game_over /\ won' = won
             /\ fs' = fs /\ emitted' = emitted
     /\ last'.op = "is_finished" => last'.result = <<PyBool(game_over)>>
     /\ last'.op = "get_current_state"
          => LET state == last'.result[1]
             IN  /\ Get(state, "attempts", PyNone).items
                      = [i \in 1..Len(attempts) |-> PyStr(attempts[i])]
                 /\ Get(state, "total_attempts", PyNone) = PyInt(Len(attempts))
                 /\ Get(state, "attempts_remaining", PyNone).n
                      = max_attempts - Get(state, "total_attempts", PyNone).n
                 /\ Get(state, "game_over", PyNone) = PyBool(game_over)
                 /\ Get(state, "won", PyNone) = PyBool(won)
     /\ last'.op = "snapshot_append"
          => Len(Get(last'.result[1], "attempts", PyNone).items) = Len(attempts) + 1]_vars

\* C25 witness: a snapshot of a won session with one attempt was returned
\* and the caller has appended a string to its attempts list, which now has
\* two entries while the session still has one.
C25_Witness ==
  /\ last.op = "snapshot_append"
  /\ won
  /\ game_over
  /\ Len(attempts) = 1
  /\ Len(Get(last.result[1], "attempts", PyNone).items) = 2
  /\ Get(last.result[1], "total_attempts", PyNone) = PyInt(1)

\* C26: the target of a session started in daily mode is determined by the
\* word list and the UTC day alone, so it is the same for every player, score
\* store and earlier session: it is the word at index seed mod len(word list),
\* seed being the first 8 hex digits of the hash of the day (0e7e152c and
\* b73ac605, taken here as two 16-bit halves), which is what
\* select_daily_word(word list, day) returns.
C26_DailyWordShared ==
  [][(daily_mode /\ last'.op = "start_game" /\ last'.exc = "none")
       => LET n == Len(word_list)
              hi == IF today = 1 THEN 3710 ELSE 46906
              lo == IF today = 1 THEN 5420 ELSE 50693
              index == ((hi % n) * (65536 % n) + (lo % n)) % n
          IN  /\ current_word' = Some(word_list[index + 1])
              /\ current_word' = Some(select_daily_word(word_list, today))]_vars

\* C26 witness: bob's daily session with three words, started on the second
\* day with a score file that is no JSON, has the first word as target.
C26_Witness ==
  /\ daily_mode
  /\ player = "bob"
  /\ today = 2
  /\ last.op = "start_game"
  /\ last.exc = "none"
  /\ Len(word_list) = 3
  /\ current_word = Some(word_list[1])
  /\ fs.kind = "malformed"
  /\ scores_path # None

\* C27 as stated: is_daily_completed(player, path) is true only if the player
\* has finished a daily-mode session whose target was the daily word of the
\* current UTC day; a finished random-mode session, or a daily session for the
\* word of another day, never makes it true. (The score file of these
\* sessions holds no record when the session is constructed.)
C27_CompletedOnlyByDailySession ==
  is_daily_completed(player, scores_path, fs, today).result
    => /\ daily_mode
       /\ game_over
       /\ current_word = Some(select_daily_word(word_list, today))

\* C28: check_guess on a raw guess does what check_guess does on the
\* uppercased, trimmed form g of that guess: the same error (not started,
\* length, characters) or the same statuses, feedback, appended attempt, won,
\* game_over and saved score; and when the guess is accepted the value
\* appended to attempts is g.
C28_NormalizedBeforeValidated ==
  [][last'.op = "check_guess"
       => \A raw \in {last'.arg} : \A g \in {Strip(Upper(raw))} : \A of_g \in {Normalize(g)} :
              /\ IF current_word = None THEN NotStarted(raw)
                 ELSE IF Len(of_g) # Len(current_word[1])
                 THEN Invalid(raw, "Guess must be n letters long")
                 ELSE IF ~IsAlpha(of_g)
                 THEN Invalid(raw, "Guess must contain only letters")
                 ELSE Accept(raw, of_g)
              /\ last'.exc = "none" => attempts' = Append(attempts, g)]_vars

\* C28 witness: the guess " bAb " was accepted and scored as "BAB", which
\* is the target and the entry of attempts, in a session that is won.
C28_Witness ==
  /\ last.op = "check_guess"
  /\ last.arg = <<" ", "b", "A", "b", " ">>
  /\ last.exc = "none"
  /\ attempts # <<>>
  /\ attempts[Len(attempts)] = <<"B", "A", "B">>
  /\ current_word = Some(<<"B", "A", "B">>)
  /\ won
  /\ last.statuses = <<"correct", "correct", "correct">>

\* C29 as stated: a guess that has the length of the target once normalized
\* and holds a character outside A-Z and a-z (a digit, a hyphen, an inner
\* blank, a letter outside ASCII) is rejected with the invalid-character error
\* and is not appended to attempts.
C29_OnlyAsciiLettersAccepted ==
  [][(last'.op = "check_guess" /\ current_word # None)
       => \A g \in {Normalize(last'.arg)} :
            (/\ Len(g) = Len(current_word[1])
             /\ \E i \in 1..Len(g) : g[i] \notin UpperLetters \cup LowerLetters)
              => /\ last'.exc = "ValueError"
                 /\ last'.msg = "Guess must contain only letters"
                 /\ attempts' = attempts]_vars

\* C30 as stated: every entry of attempts is a string of the letters A-Z of
\* the length of the target; a check_guess that is accepted appends one entry
\* at the end and leaves the earlier ones, and a check_guess that is rejected
\* leaves attempts as it was.
C30_AttemptsAreValidatedGuesses ==
  [][/\ \A k \in 1..Len(attempts') :
          /\ Len(attempts'[k]) = Len(current_word'[1])
          /\ \A i \in 1..Len(attempts'[k]) : attempts'[k][i] \in UpperLetters
     /\ (last'.op = "check_guess" /\ last'.exc = "none")
          => attempts' = Append(attempts, Normalize(last'.arg))
     /\ (last'.op = "check_guess" /\ last'.exc # "none")
          => attempts' = attempts]_vars

(***************************************************************************)
(* Properties of the ranking.                                              *)
(***************************************************************************)

\* C21: for records with ISO timestamps and a limit of 0 or more,
\* get_top_scores(records, limit) returns min(limit, len(records)) records in
\* this order: won before lost; with won equal, fewer attempts first; with won
\* and attempts equal, the more recent first. They are the first of the input
\* in that order, and each is in the result at most as often as in the input.
C21_TopScoresRanked ==
  (/\ last.op = "get_top_scores"
   /\ last.arg[2].n >= 0
   /\ \A i \in 1..Len(last.arg[1].items) :
        FromIsoFormat(Get(last.arg[1].items[i], "date", PyNone).s).ok)
    => LET input == last.arg[1].items
           limit == last.arg[2].n
           result == last.result
           isWon(r) == Get(r, "won", PyNone).b
           tries(r) == Get(r, "attempts", PyNone).n
           instant(r) == FromIsoFormat(Get(r, "date", PyNone).s).timestamp
           Better(a, b) ==
             \/ isWon(a) /\ ~isWon(b)
             \/ isWon(a) = isWon(b) /\ tries(a) < tries(b)
             \/ isWon(a) = isWon(b) /\ tries(a) = tries(b) /\ instant(a) > instant(b)
           Count(l, r) == Cardinality({i \in 1..Len(l) : l[i] = r})
       IN  /\ last.exc = "none"
           /\ Len(result) = (IF limit < Len(input) THEN limit ELSE Len(input))
           /\ \A i \in 1..Len(result), j \in 1..Len(result) :
                i < j => ~Better(result[j], result[i])
           /\ \A i \in 1..Len(result) : Count(result, result[i]) <= Count(input, result[i])
           /\ \A i \in 1..Len(input) :
                (\E j \in 1..Len(result) : Better(input[i], result[j]))
                  => Count(result, input[i]) = Count(input, input[i])

\* C21 witness: of a lost game and two won games of two attempts, given in
\* that order, the two won games were returned, the more recent one first.
C21_Witness ==
  /\ last.op = "get_top_scores"
  /\ last.exc = "none"
  /\ last.arg[2].n = 2
  /\ Len(last.arg[1].items) = 3
  /\ ~Get(last.arg[1].items[1], "won", PyNone).b
  /\ Len(last.result) = 2
  /\ last.result[1] = last.arg[1].items[3]
  /\ last.result[2] = last.arg[1].items[2]
  /\ Get(last.result[1], "attempts", PyNone) = Get(last.result[2], "attempts", PyNone)
  /\ Get(last.result[1], "date", PyNone) # Get(last.result[2], "date", PyNone)

(***************************************************************************)
(* Properties of two concurrent saves.                                     *)
(***************************************************************************)

\* C22: when two processes have saved to the same path and both calls
\* returned without an exception, then if one call had returned before the
\* other read the file, the file holds what it held before and both records;
\* in any case it holds the record of the process that wrote last, and a
\* record is missing only if the load and write steps of the two interleaved.
C22_SerializedSavesKeepBoth ==
  (\A p \in Procs : procs[p].pc = "returned" /\ procs[p].exc = "none")
    => LET stored == load_scores(fs).scores
           Holds(r) == \E i \in 1..Len(stored) : stored[i] = r
       IN  /\ load_scores(fs).exc = "none"
           /\ (\E p \in Procs : procs[p].after)
                => /\ \A p \in Procs : Holds(procs[p].score)
                   /\ Len(stored) >= 2
                   /\ \A p \in Procs :
                        procs[p].after
                          => stored = procs[p].scores
           /\ \E p \in Procs : Holds(procs[p].score) /\ stored = procs[p].scores
           /\ (\E p \in Procs : ~Holds(procs[p].score))
                => \A p \in Procs : ~procs[p].after

\* C22 witness: both saves returned without an exception and the file lacks
\* the record of process 1 (a lost update).
C22_Witness ==
  /\ \A p \in Procs : procs[p].pc = "returned" /\ procs[p].exc = "none"
  /\ fs.kind = "list"
  /\ \A i \in 1..Len(fs.recs) : JsonLoad(fs.recs[i]) # procs[1].score
  /\ \E i \in 1..Len(fs.recs) : JsonLoad(fs.recs[i]) = procs[2].score

(***************************************************************************)
(* Properties of the interactive loop.                                     *)
(***************************************************************************)

\* C23: when input() raises KeyboardInterrupt or EOFError at the prompt of a
\* session that is not finished, the loop ends (no further step is taken) and
\* the step leaves the session not finished, attempts as they were (the
\* guesses accepted so far), the target and won unchanged, and the score file
\* untouched with no save_score call made for the session.
C23_InterruptLeavesSessionUnfinished ==
  [][/\ last.exc \notin Interrupts
     /\ last'.exc \in Interrupts
          => /\ ~game_over'
             /\ attempts' = attempts
             /\ \A i \in 1..Len(attempts') : IsAlpha(attempts'[i])
             /\ current_word' = current_word
             /\ won' = won
             /\ fs' = fs
             /\ load_scores(fs').scores = <<>>
             /\ emitted' = 0]_vars

\* C23 witness: the loop was interrupted after one accepted guess of a
\* session with a budget of two and a score path; no record is in the file.
C23_Witness ==
  /\ last.exc = "KeyboardInterrupt"
  /\ Len(attempts) = 1
  /\ max_attempts = 2
  /\ scores_path # None
  /\ ~game_over
  /\ fs = File("missing", <<>>)

(***************************************************************************)
(* Further properties of the session.                                      *)
(***************************************************************************)

\* C31: a check_guess step, accepted or rejected, leaves the target, the word
\* list, max_attempts, player and daily_mode as they were; the target changes
\* in start_game steps only, so from start_game until the session is started
\* again every guess is scored against the same word.
C31_CheckGuessKeepsTarget ==
  [][/\ last'.op = "check_guess"
          => /\ current_word' = current_word
             /\ word_list' = word_list
             /\ max_attempts' = max_attempts
             /\ player' = player
             /\ daily_mode' = daily_mode
     /\ current_word' # current_word => last'.op = "start_game"]_vars

\* C31 witness: in a session with two words and a budget of two, a guess was
\* rejected after another one was accepted, and the target is still a word
\* of the list.
C31_Witness ==
  /\ last.op = "check_guess"
  /\ last.exc = "ValueError"
  /\ Len(attempts) = 1
  /\ Len(word_list) = 2
  /\ max_attempts = 2
  /\ current_word = Some(word_list[2])
  /\ attempts[1] # word_list[2]

\* C32 as stated: when a check_guess step finishes the session and writes its
\* record, the last record of the file has the session's player, the target
\* as word, the session's won flag and the number of attempts made, which is
\* between 1 and max_attempts; for a win it is the position of the guess that
\* equals the target.
C32_RecordDescribesSession ==
  [][(last'.op = "check_guess" /\ ~game_over /\ game_over' /\ fs' # fs)
       => \A stored \in {load_scores(fs').scores} : \A rec \in {stored[Len(stored)]} :
            /\ Get(rec, "player", PyNone) = PyStr(<<player>>)
            /\ Get(rec, "word", PyNone) = PyStr(current_word[1])
            /\ Get(rec, "won", PyNone) = PyBool(won')
            /\ Get(rec, "attempts", PyNone) = PyInt(Len(attempts'))
            /\ Len(attempts') = Len(attempts) + 1
            /\ 1 <= Len(attempts') /\ Len(attempts') <= max_attempts
            /\ won' => attempts'[Len(attempts')] = current_word[1]]_vars

\* C33 as stated: the budget of every session is at least 1 and no operation
\* changes it: every step is taken by a session whose max_attempts is 1 or
\* more and leaves max_attempts as it was.
C33_BudgetAtLeastOne ==
  [][max_attempts >= 1 /\ max_attempts' = max_attempts]_vars

\* C36: in the interactive loop of a session with a budget of 1 or more,
\* check_guess is called only while the session is not finished; attempts
\* never has more entries than max_attempts; and at most one save_score call
\* is made, and at most one record written, for the session.
C36_LoopStopsAtFinish ==
  [][/\ last'.op = "check_guess" => ~game_over
     /\ Len(attempts') <= max_attempts
     /\ emitted' <= 1
     /\ Len(load_scores(fs').scores) <= 1
     /\ fs' # fs => (game_over' /\ ~game_over)]_vars

\* C36 witness: the session with a budget of two was lost with its second
\* accepted guess, and its one record is in the file.
C36_Witness ==
  /\ last.op = "check_guess"
  /\ game_over
  /\ ~won
  /\ max_attempts = 2
  /\ Len(attempts) = 2
  /\ emitted = 1
  /\ Len(fs.recs) = 1

\* C37: in every state reached by start_game and check_guess calls, a session
\* that is won is over and its target is one of its attempts.
C37_WonImpliesOverAndGuessed ==
  won => /\ game_over
         /\ current_word # None
         /\ \E k \in 1..Len(attempts) : attempts[k] = current_word[1]

\* C37 witness: a won session with a budget of two holds the target as its
\* first attempt and another word, guessed after the win, as its second.
C37_Witness ==
  /\ won
  /\ game_over
  /\ max_attempts = 2
  /\ Len(attempts) = 2
  /\ attempts[1] = current_word[1]
  /\ attempts[2] # current_word[1]
  /\ last.op = "check_guess"

(***************************************************************************)
(* Properties of main.                                                     *)
(***************************************************************************)

\* C34 as stated: when the score file holds a record of player P whose date
\* is of the current UTC day, a run of main with --daily for P leaves the
\* session fields and the file as they were (no target, no guess, no record),
\* no step of the game follows it in that run, and it returns 0.
C34_DailyReplayReturnsZero ==
  [][(/\ Idle
      /\ last'.op \in {"main", "__init__"}
      /\ today' = today
      /\ Len(last'.arg) = 3
      /\ last'.arg[2] = "--daily"
      /\ \E i \in 1..Len(fs.recs) :
           \A rec \in {JsonLoad(fs.recs[i])} :
             /\ Get(rec, "player", PyNone) = PyStr(<<last'.arg[1]>>)
             /\ Get(rec, "date", PyNone).s[1] = DayStr(today))
       => /\ last'.result = <<PyInt(0)>>
          /\ UNCHANGED << config, current_word, attempts, game_over, won, fs, emitted >>]_vars

\* C34, amended: in that case the run of main leaves the session fields and
\* the file as they were, and no step of the game follows it in that run; it
\* returns 0 unless it is given --max-attempts below 1 or a word file that is
\* not there or, without --stats, holds no word, for which it returns 1.
C34_DailyReplayGated ==
  [][(/\ Idle
      /\ last'.op \in {"main", "__init__"}
      /\ today' = today
      /\ Len(last'.arg) = 3
      /\ last'.arg[2] = "--daily"
      /\ \E i \in 1..Len(fs.recs) :
           \A rec \in {JsonLoad(fs.recs[i])} :
             /\ Get(rec, "player", PyNone) = PyStr(<<last'.arg[1]>>)
             /\ Get(rec, "date", PyNone).s[1] = DayStr(today))
       => /\ last'.result \in {<<PyInt(0)>>, <<PyInt(1)>>}
          /\ last'.result = <<PyInt(1)>>
               <=> last'.msg \in {"max-attempts must be at least 1", "Word file not found",
                                  "Error loading words"}
          /\ UNCHANGED << config, current_word, attempts, game_over, won, fs, emitted >>]_vars

\* C34 witness: alice's daily session was won and its record saved, and her
\* next run with --daily on the same day was turned away with code 0.
C34_Witness ==
  /\ last.op = "main"
  /\ last.arg = <<"alice", "--daily", "">>
  /\ last.msg = "Daily Word Already Completed!"
  /\ last.result = <<PyInt(0)>>
  /\ player = "alice"
  /\ daily_mode
  /\ won
  /\ emitted = 1
  /\ Len(fs.recs) = 1
  /\ today = 1

(***************************************************************************)
(* Properties of the countdown.                                            *)
(***************************************************************************)

\* C35 as stated: get_next_daily_reset returns the first midnight after the
\* instant of its clock read, at most 24 hours ahead; time_until_next_daily
\* renders the time T from its clock read to the first midnight after it,
\* 0 < T <= 24h, as "Xh Ym" when T is an hour or more, "Ym Zs" when it is a
\* minute or more and "Zs" otherwise, X = T div 3600, Y = (T mod 3600) div 60
\* and Z = T mod 60, also at midnight and when the second read is on the
\* next day.
C35_CountdownRendersRemainingTime ==
  /\ last.op = "get_next_daily_reset"
       => \A now \in {last.arg[1].n} : \A reset \in {last.result[1].n} :
            /\ reset % 86400 = 0
            /\ reset > now
            /\ reset - now <= 86400
  /\ last.op = "time_until_next_daily"
       => \A now \in {last.arg[1].n} :
          \A T \in {(CHOOSE m \in 1..3 : m * 86400 > now /\ (m - 1) * 86400 <= now) * 86400
                       - now} :
            /\ 0 < T /\ T <= 86400
            /\ last.result[1].s =
                 IF T >= 3600
                 THEN Str(T \div 3600) \o <<"h", " ">> \o Str((T % 3600) \div 60) \o <<"m">>
                 ELSE IF T >= 60
                 THEN Str(T \div 60) \o <<"m", " ">> \o Str(T % 60) \o <<"s">>
                 ELSE Str(T) \o <<"s">>


(***************************************************************************)
(* Properties of the word list.                                            *)
(***************************************************************************)

\* C38 as stated: every started session is winnable; whenever the target is
\* given as the guess to a session in progress, the call raises nothing and
\* the session is won.
C38_StartedSessionWinnable ==
  [][(/\ current_word # None
      /\ ~game_over
      /\ last'.op = "check_guess"
      /\ last'.arg = current_word[1]
      /\ current_word' = current_word)
     => (last'.exc = "none" /\ won')]_vars

(***************************************************************************)
(* Properties of a failing save.                                           *)
(***************************************************************************)

\* C39 as stated: save_score called with a valid record on a file whose
\* content is not valid JSON (without content, or malformed) or is not a list
\* raises RuntimeError and leaves the content as it was.
C39_FailingSaveKeepsFile ==
  [][(/\ last'.op = "save_score"
      /\ last'.arg[1] \in ValidRecords
      /\ fs.kind \in {"empty", "malformed", "notlist"})
     => (last'.exc = "RuntimeError" /\ fs' = fs)]_vars

\* C39 amended: save_score called with a valid record on a file whose content
\* is not blank and is not valid JSON or is not a list raises RuntimeError and
\* leaves the content as it was.
C39_FailingSaveKeepsNonBlankFile ==
  [][(/\ last'.op = "save_score"
      /\ last'.arg[1] \in ValidRecords
      /\ fs.kind \in {"malformed", "notlist"})
     => (last'.exc = "RuntimeError" /\ fs' = fs)]_vars

\* C39 witness: save_score with a valid record has raised RuntimeError on a
\* writable file with malformed content.
C39_Witness ==
  /\ last.op = "save_score"
  /\ last.arg[1] \in ValidRecords
  /\ last.exc = "RuntimeError"
  /\ fs.kind = "malformed"
  /\ writable

(***************************************************************************)
(* Termination of the interactive loop.                                    *)
(***************************************************************************)

\* C40: in the interactive loop with a budget of N >= 1, a turn on an empty
\* line or on a rejected guess leaves attempts as it was and the loop at its
\* prompt; attempts never holds more than N guesses and the session is over
\* once it holds N; and when the player is never interrupted and keeps
\* entering accepted guesses, the session is eventually over, won or lost.
C40_LoopTerminates ==
  /\ [][((last'.op = "input" /\ last'.exc = "none")
          \/ (last'.op = "check_guess" /\ last'.exc = "ValueError"))
         => (attempts' = attempts /\ ~game_over' /\ AtPrompt')]_vars
  /\ [](/\ Len(attempts) <= max_attempts
        /\ (current_word # None /\ Len(attempts) >= max_attempts) => game_over)
  /\ ([](last.exc \notin Interrupts) => <>game_over)

\* C40 witness: the loop has ended a session with a budget of two that was won
\* with the second accepted guess.
C40_Witness ==
  /\ last.op = "check_guess"
  /\ game_over
  /\ won
  /\ max_attempts = 2
  /\ Len(attempts) = 2
  /\ attempts[1] # current_word[1]
  /\ attempts[2] = current_word[1]
====
